---- MODULE Spec2Model ----
(***************************************************************************)
(* Model of rtosc's pretty printer and scanner (src/src/pretty-format.c).   *)
(*                                                                         *)
(* Texts are sequences of one-character strings; a position is a 1-based   *)
(* index into the text, 0 is the NULL pointer, and reading past the end    *)
(* yields NUL.  An arg val (rtosc_arg_val_t) is a record                   *)
(*   [type, i, s, b, x]                                                    *)
(* type: the type character; i: the integer payload (i, h, c, t, the       *)
(* blob/array length, a range's num); s: the characters of a string or     *)
(* symbol; b: the bytes of a blob, a MIDI datum or a color; x: a range's   *)
(* has_delta, or an array's element type (as a character code).           *)
(***************************************************************************)
EXTENDS Integers, Sequences, FiniteSets, TLC

NUL == "NUL"
BEL == "^G"
BS == "^H"
VT == "^K"
BQ == "^@"

\* ASCII, code 0 first (the control characters TLA+ cannot write are named).
AsciiTable ==
  << NUL, "^A", "^B", "^C", "^D", "^E", "^F", BEL, BS, "\t", "\n", VT, "\f", "\r",
     "^N", "^O", "^P", "^Q", "^R", "^S", "^T", "^U", "^V", "^W", "^X", "^Y", "^Z",
     "^[", "^|", "^]", "^^", "^_",
     " ", "!", "\"", "#", "$", "%", "&", "'", "(", ")", "*", "+", ",", "-", ".", "/",
     "0", "1", "2", "3", "4", "5", "6", "7", "8", "9", ":", ";", "<", "=", ">", "?",
     "@", "A", "B", "C", "D", "E", "F", "G", "H", "I", "J", "K", "L", "M", "N", "O",
     "P", "Q", "R", "S", "T", "U", "V", "W", "X", "Y", "Z", "[", "\\", "]", "^", "_",
     BQ, "a", "b", "c", "d", "e", "f", "g", "h", "i", "j", "k", "l", "m", "n", "o",
     "p", "q", "r", "s", "t", "u", "v", "w", "x", "y", "z", "{", "|", "}", "~", "^?" >>

Chr(n) == AsciiTable[(n % 128) + 1]
Ord(c) == CHOOSE n \in 0..127 : AsciiTable[n + 1] = c

DigitChars == <<"0", "1", "2", "3", "4", "5", "6", "7", "8", "9">>
HexChars == DigitChars \o <<"a", "b", "c", "d", "e", "f">>
Digits == {"0", "1", "2", "3", "4", "5", "6", "7", "8", "9"}
Lower == {"a", "b", "c", "d", "e", "f", "g", "h", "i", "j", "k", "l", "m", "n", "o", "p",
          "q", "r", "s", "t", "u", "v", "w", "x", "y", "z"}
Upper == {"A", "B", "C", "D", "E", "F", "G", "H", "I", "J", "K", "L", "M", "N", "O", "P",
          "Q", "R", "S", "T", "U", "V", "W", "X", "Y", "Z"}

isdigit(c) == c \in Digits
isalpha(c) == c \in Lower \cup Upper
isalnum(c) == isalpha(c) \/ isdigit(c)
isspace(c) == c \in {" ", "\t", "\n", VT, "\f", "\r"}
isxdigit(c) == c \in Digits \cup {"a", "b", "c", "d", "e", "f", "A", "B", "C", "D", "E", "F"}

\* The character at position p of text t (NUL at and after the terminator).
At(t, p) == IF p \in DOMAIN t THEN t[p] ELSE NUL

\* strncmp(t + p, w, strlen(w)) == 0
StartsWith(t, p, w) == \A k \in 1..Len(w) : At(t, p + k - 1) = w[k]

DigitVal(c) ==
  CHOOSE v \in 0..15 : c \in {HexChars[v + 1], <<"0", "1", "2", "3", "4", "5", "6", "7", "8",
                                                "9", "A", "B", "C", "D", "E", "F">>[v + 1]}

RECURSIVE DecDigits(_)
DecDigits(n) == IF n < 10 THEN <<DigitChars[n + 1]>>
                ELSE DecDigits(n \div 10) \o <<DigitChars[(n % 10) + 1]>>

\* printf("%d")
DecStr(n) == IF n < 0 THEN <<"-">> \o DecDigits(0 - n) ELSE DecDigits(n)

\* printf("%x"): what "%02x" would be without its width.
Hex1(b) == <<HexChars[(b % 16) + 1]>>

\* printf("%02x")
Hex2(b) == <<HexChars[((b \div 16) % 16) + 1], HexChars[(b % 16) + 1]>>

\* The arg val record.
AV(type, i, s, b, x) == [type |-> type, i |-> i, s |-> s, b |-> b, x |-> x]
Plain(type) == AV(type, 0, <<>>, <<>>, 0)
IntArg(type, n) == AV(type, n, <<>>, <<>>, 0)
StrArg(type, s) == AV(type, 0, s, <<>>, 0)
BytesArg(type, b) == AV(type, 0, <<>>, b, 0)
BlobArg(b) == AV("b", Len(b), <<>>, b, 0)
ArrayArg(atype, len) == AV("a", len, <<>>, <<>>, Ord(atype))
RangeArg(num, has_delta) == AV("-", num, <<>>, <<>>, has_delta)
\* A slot that was never written.
Uninit == Plain("?")


(***************************************************************************)
(* The printer.  The output buffer is mem, a sequence as long as the       *)
(* caller's capacity; a print state is [mem, fail, oob]: fail is a failed  *)
(* assert() (the process aborts, nothing more is written), oob a write or  *)
(* read outside the buffer.  A size_t that wrapped below zero is a         *)
(* negative number here and counts as a huge size.                         *)
(***************************************************************************)
NoEsc == "none"

as_escaped_char(c, chr) ==
  CASE c = BEL -> "a"
    [] c = BS -> "b"
    [] c = "\t" -> "t"
    [] c = "\n" -> "n"
    [] c = VT -> "v"
    [] c = "\f" -> "f"
    [] c = "\r" -> "r"
    [] c = "\\" -> "\\"
    [] OTHER -> IF chr /\ c = "'" THEN "'"
                ELSE IF ~chr /\ c = "\"" THEN "\""
                ELSE NoEsc

NewPrintState(cap, fill) == [mem |-> [k \in 1..cap |-> fill], fail |-> FALSE, oob |-> FALSE]

Abort(st, ok) == IF ok THEN st ELSE [st EXCEPT !.fail = TRUE]

\* *p = c
Put(st, p, c) ==
  IF st.fail THEN st
  ELSE IF p < 1 \/ p > Len(st.mem) THEN [st EXCEPT !.oob = TRUE]
  ELSE [st EXCEPT !.mem[p] = c]

\* The characters cs stored from position p on.
PutSeq(st, p, cs) ==
  IF st.fail \/ Len(cs) = 0 THEN st
  ELSE [st EXCEPT !.mem = [k \in 1..Len(st.mem) |->
                             IF k >= p /\ k < p + Len(cs) THEN cs[k - p + 1] ELSE st.mem[k]],
                  !.oob = st.oob \/ p < 1 \/ p + Len(cs) - 1 > Len(st.mem)]

Nuls(n) == [k \in 1..n |-> NUL]

\* vsnprintf followed by the two asserts; the caller takes Len(cs) as the result.
asnprintf(st, p, size, cs) ==
  LET fits == size < 0 \/ Len(cs) < size
      shown == IF fits THEN cs \o <<NUL>>
               ELSE IF size = 0 THEN <<>>
               ELSE SubSeq(cs, 1, size - 1) \o <<NUL>>
  IN  Abort(PutSeq(st, p, shown), fits)

\* strncpy(p, cs, n): the copy is padded with NULs to n bytes.
strncpy(st, p, cs, n) ==
  LET room == IF n < 0 THEN Len(st.mem) - p + 2 ELSE n
      bytes == IF Len(cs) >= room THEN SubSeq(cs, 1, room)
               ELSE cs \o Nuls(room - Len(cs))
  IN  PutSeq(st, p, bytes)

memmove(st, dst, src, n) ==
  LET inside == src >= 1 /\ src + n - 1 <= Len(st.mem)
      bytes == [k \in 1..n |-> IF src + k - 1 >= 1 /\ src + k - 1 <= Len(st.mem)
                               THEN st.mem[src + k - 1] ELSE NUL]
      moved(st2) == [st2 EXCEPT !.oob = st2.oob \/ ~inside]
  IN  IF st.fail \/ n <= 0 THEN st ELSE moved(PutSeq(st, dst, bytes))

\* The C string at position p: the bytes up to the first NUL.
CStr(mem, p) ==
  IF p < 1 \/ p > Len(mem) THEN <<>>
  ELSE SubSeq(mem, p, (CHOOSE e \in p..(Len(mem) + 1) :
                         /\ e = Len(mem) + 1 \/ mem[e] = NUL
                         /\ \A k \in p..(e - 1) : mem[k] # NUL) - 1)

rtosc_print_options(lossless, prec, sep, linelength, compress_ranges) ==
  [lossless |-> lossless, floating_point_precision |-> prec, sep |-> sep,
   linelength |-> linelength, compress_ranges |-> compress_ranges]

default_print_options == rtosc_print_options(TRUE, 2, <<" ">>, 80, TRUE)

\* The offset with an array taken as wide as its len.
next_arg_offset_array_len(args, cur) ==
  IF cur < 1 \/ cur > Len(args) THEN 1
  ELSE IF args[cur].type = "a" THEN args[cur].i
  ELSE IF args[cur].type = "-" THEN 2 + args[cur].x
  ELSE 1

RECURSIVE next_arg_offset(_, _)
next_arg_offset(args, cur) ==
  IF cur < 1 \/ cur > Len(args) THEN 1
  ELSE IF args[cur].type = "a" THEN args[cur].i + 1
  ELSE IF args[cur].type = "-" THEN 1 + next_arg_offset(args, cur + 1) + args[cur].x
  ELSE 1

\* The break without the backslash that tells the scanner to go on.
BreakSeqBare == <<"\"", " ", "\n", " ", " ", " ", " ", "\"">>

\* The string written by break_string: "\<newline>    "
BreakSeq == <<"\"", "\\", "\n", " ", " ", " ", " ", "\"">>

\* break_string on the string loop's state [st, b, cols].
break_string(L, bs) ==
  [st |-> asnprintf(L.st, L.b, bs, BreakSeq), b |-> L.b + Len(BreakSeq), cols |-> 5]

\* A loop state of the printer: [st, buffer, bs, wrt, cols, last_sep, awtl, tmp];
\* awtl is args_written_this_line, tmp the result of the last rtosc_print_arg_val.
\* linebreak_check_after_write if it never broke a line:
linebreak_never(L, inc, linelength) == [L EXCEPT !.awtl = L.awtl + 1]

linebreak_check_after_write(L, inc, linelength) ==
  IF L.cols > linelength /\ L.awtl + 1 > 1
  THEN [L EXCEPT !.st = PutSeq(memmove(Abort(Put(L.st, L.last_sep, "\n"),
                                             L.bs < 0 \/ L.bs >= 4),
                                       L.last_sep + 5, L.last_sep + 1, inc),
                               L.last_sep + 1, <<" ", " ", " ", " ">>),
                 !.cols = 4 + inc, !.wrt = L.wrt + 4,
                 !.buffer = L.buffer + 4, !.bs = L.bs - 4, !.awtl = 1]
  ELSE [L EXCEPT !.awtl = L.awtl + 1]

\* COUNT_UP
COUNT_UP(L, n) == [L EXCEPT !.bs = L.bs - n, !.buffer = L.buffer + n, !.wrt = L.wrt + n]
\* COUNT_UP_COL
COUNT_UP_COL(L, n) == [COUNT_UP(L, n) EXCEPT !.cols = L.cols + n]
\* COUNT_UP_WRITE
COUNT_UP_WRITE(L, c) ==
  [L EXCEPT !.st = Put(Abort(L.st, L.bs # 0), L.buffer, c), !.buffer = L.buffer + 1,
            !.bs = L.bs - 1, !.wrt = L.wrt + 1, !.cols = L.cols + 1]


\* rtosc_arg_val_range_arg: the ith term of the range at args[a], start + ith * delta.
rtosc_arg_val_range_arg(args, a, ith) ==
  LET delta == args[a + 1]
      start == args[a + 2]
  IN  [start EXCEPT !.i = start.i + ith * delta.i]

\* Is the symbol printed without quotes?
SymbolIsPlain(s) ==
  /\ (At(s, 1) = "_" \/ isalpha(At(s, 1)))
  /\ \A k \in 2..Len(s) : s[k] = "_" \/ isalnum(s[k])

\* The loop of case 's'/'S' over the characters of s, from the kth on.
RECURSIVE PrintStrLoop(_, _, _, _, _)
PrintStrLoop(s, k, L, bs, linelength) ==
  LET escaped(M, as_esc) ==
        [st |-> Put(Put(Abort(M.st, bs - 1 # 0), M.b, "\\"), M.b + 1, as_esc),
         b |-> M.b + 2, cols |-> M.cols + 2]
      write(M, as_esc) ==
        IF as_esc = NoEsc
        THEN [st |-> Put(M.st, M.b, s[k]), b |-> M.b + 1, cols |-> M.cols + 1]
        ELSE IF as_esc = "n" THEN break_string(escaped(M, as_esc), bs)
        ELSE escaped(M, as_esc)
      asserted(M) == [M EXCEPT !.st = Abort(M.st, bs # 0)]
  IN  IF k > Len(s) \/ L.st.fail THEN L
      ELSE PrintStrLoop(s, k + 1,
                        write(asserted(IF L.cols > linelength - 3 THEN break_string(L, bs)
                                       ELSE L),
                              as_escaped_char(s[k], FALSE)),
                        bs, linelength)

\* The loop of case 'b' over the bytes of the blob, from the ith (0-based) on.
RECURSIVE PrintBlobLoop(_, _, _, _, _)
PrintBlobLoop(data, len, i, L, linelength) ==
  LET newline(M) ==
        [M EXCEPT !.st = asnprintf(M.st, M.buffer - 1, M.bs + 1, <<"\n", " ", " ", " ", " ">>),
                  !.wrt = M.wrt + 4, !.buffer = M.buffer + 4, !.cols = 4]
      byte(M) ==
        COUNT_UP_COL([M EXCEPT !.st = asnprintf(M.st, M.buffer, M.bs,
                                                <<"0", "x">>
                                                \o Hex2(IF i + 1 <= Len(data) THEN data[i + 1]
                                                        ELSE 0)
                                                \o <<" ">>)], 5)
  IN  IF i >= len \/ L.st.fail THEN L
      ELSE PrintBlobLoop(data, len, i + 1,
                         byte(IF L.cols >= linelength - 6 THEN newline(L) ELSE L), linelength)

RECURSIVE rtosc_print_arg_val(_, _, _, _, _, _, _)
RECURSIVE PrintArrayLoop(_, _, _, _, _)
RECURSIVE PrintRangeLoop(_, _, _, _, _)

\* "tmp = rtosc_print_arg_val(args + a, buffer, bs, opt, cols_used); COUNT_UP(tmp);" on
\* the loop state L, which keeps tmp.
PrintNext(args, a, L, opt) ==
  LET counted(r) == [COUNT_UP([L EXCEPT !.st = r.st, !.cols = r.cols], r.wrt)
                       EXCEPT !.tmp = r.wrt]
  IN  counted(rtosc_print_arg_val(args, a, L.st, L.buffer, L.bs, opt, L.cols))

\* "linebreak_check_after_write(..., tmp, ...); last_sep = buffer; COUNT_UP_WRITE(' ');"
BreakAndSpace(L, linelength) ==
  LET space(M) == COUNT_UP_WRITE([M EXCEPT !.last_sep = M.buffer], " ")
  IN  space(linebreak_check_after_write(L, L.tmp, linelength))

\* The loop of case 'a' over the elements, i the offset of the next one.
PrintArrayLoop(args, a, i, L, opt) ==
  IF i > args[a].i \/ L.st.fail THEN L
  ELSE PrintArrayLoop(args, a, i + next_arg_offset(args, a + i),
                      BreakAndSpace(PrintNext(args, a + i, L, opt), opt.linelength), opt)

\* The loop of case '-' over the terms i .. num-1 of the range.
PrintRangeLoop(args, a, i, L, opt) ==
  IF i >= args[a].i \/ L.st.fail THEN L
  ELSE PrintRangeLoop(args, a, i + 1,
                      BreakAndSpace(IF args[a].x # 0
                                    THEN PrintNext(<<rtosc_arg_val_range_arg(args, a, i)>>, 1,
                                                   L, opt)
                                    ELSE PrintNext(args, a + 1, L, opt),
                                    opt.linelength),
                      opt)

\* printf with the result assigned to wrt (the cases that end in "*cols_used += wrt").
PrintFmt(st, buffer, bs, cols, cs) ==
  [st |-> asnprintf(st, buffer, bs, cs), wrt |-> Len(cs), cols |-> cols + Len(cs)]

\* The cases 'T', 'F', 'N', 'I': assert(bs > strlen), strncpy.
PrintKeyword(st, buffer, bs, cols, cs) ==
  [st |-> strncpy(Abort(st, bs < 0 \/ bs > Len(cs)), buffer, cs, bs),
   wrt |-> Len(cs), cols |-> cols + Len(cs)]

PrintString(arg, st, buffer, bs, opt, cols) ==
  LET plain == arg.type = "S" /\ SymbolIsPlain(arg.s)
      quote(M) == [st |-> Put(Abort(M.st, bs < 0 \/ bs >= 2), M.b, "\""), b |-> M.b + 1,
                   cols |-> M.cols + 1]
      marker(M) == [st |-> Put(M.st, M.b, "S"), b |-> M.b + 1, cols |-> M.cols]
      close(M) == IF plain THEN [M EXCEPT !.st = Abort(M.st, bs # 0)]
                  ELSE IF arg.type = "S" THEN marker(quote(M))
                  ELSE quote(M)
      result(M) == [st |-> Put(M.st, M.b, NUL), wrt |-> M.b - buffer, cols |-> M.cols]
  IN  result(close(PrintStrLoop(arg.s, 1,
                                IF plain THEN [st |-> st, b |-> buffer, cols |-> cols]
                                ELSE [st |-> Put(st, buffer, "\""), b |-> buffer + 1,
                                      cols |-> cols + 1],
                                bs, opt.linelength)))

PrintBlob(arg, st, buffer, bs, opt, cols) ==
  LET start(head) ==
        [st |-> asnprintf(st, buffer, bs, head), buffer |-> buffer + Len(head), bs |-> bs,
         wrt |-> Len(head), cols |-> cols + Len(head), last_sep |-> 0, awtl |-> 0, tmp |-> 0]
      result(M) == [st |-> Put(M.st, M.buffer - 1, "]"), wrt |-> M.wrt, cols |-> M.cols]
  IN  result(PrintBlobLoop(arg.b, arg.i, 0,
                           start(<<"B", "L", "O", "B", " ", "[">> \o DecStr(arg.i) \o <<" ">>),
                           opt.linelength))

PrintArray(args, a, st, buffer, bs, opt, cols) ==
  LET elements(M) == IF args[a].i # 0 THEN PrintArrayLoop(args, a, 1, M, opt)
                     ELSE COUNT_UP_WRITE(M, " ")
      close(M) == [st |-> Put(Put(Abort(M.st, M.bs # 0), M.buffer - 1, "]"), M.buffer, NUL),
                   wrt |-> M.wrt, cols |-> M.cols + 1]
  IN  close(elements(COUNT_UP_WRITE([st |-> st, buffer |-> buffer, bs |-> bs, wrt |-> 0,
                                     cols |-> cols, last_sep |-> buffer - 1, awtl |-> 1,
                                     tmp |-> 0], "[")))

PrintRange(args, a, st, buffer, bs, opt, cols) ==
  LET num == args[a].i
      has_delta == args[a].x # 0
      L0 == [st |-> st, buffer |-> buffer, bs |-> bs, wrt |-> 0, cols |-> cols,
             last_sep |-> 0, awtl |-> 1, tmp |-> 0]
      \* " ... "
      dots(M) == COUNT_UP_COL([M EXCEPT !.st = asnprintf(M.st, M.buffer, M.bs,
                                                         <<" ", ".", ".", ".", " ">>)], 5)
      \* "nx"
      times(mult) == COUNT_UP_COL([L0 EXCEPT !.st = asnprintf(st, buffer, bs, mult)],
                                  Len(mult))
      loop(M, start) == PrintRangeLoop(args, a, start,
                                       [M EXCEPT !.last_sep = M.buffer - 1], opt)
      result(M) == [st |-> Put(M.st, M.buffer - 1, NUL), wrt |-> M.wrt - 1, cols |-> M.cols]
  IN  IF ~(opt.compress_ranges \/ num = 0) THEN result(loop(L0, 0))
      ELSE IF has_delta \/ num = 0
      THEN result(loop(dots(PrintNext(args, a + 1 + (IF has_delta THEN 1 ELSE 0), L0, opt)),
                       num - (IF num # 0 THEN 1 ELSE 0)))
      ELSE result(loop(PrintNext(args, a + 1, times(DecStr(num + 1) \o <<"x">>), opt), num))

rtosc_print_arg_val(args, a, st, buffer, bs, opt, cols) ==
  LET arg == args[a]
      type == arg.type
  IN  CASE type = "T" -> PrintKeyword(st, buffer, bs, cols, <<"t", "r", "u", "e">>)
        [] type = "F" -> PrintKeyword(st, buffer, bs, cols, <<"f", "a", "l", "s", "e">>)
        [] type = "N" -> PrintKeyword(st, buffer, bs, cols, <<"n", "i", "l">>)
        [] type = "I" -> PrintKeyword(st, buffer, bs, cols, <<"i", "n", "f">>)
        [] type = "h" -> PrintFmt(st, buffer, bs, cols, DecStr(arg.i) \o <<"h">>)
        [] type = "t" /\ arg.i = 1 ->
             PrintFmt(st, buffer, bs, cols,
                      <<"i", "m", "m", "e", "d", "i", "a", "t", "e", "l", "y">>)
        [] type = "r" ->
             PrintFmt(st, buffer, bs, cols,
                      <<"#">> \o Hex2(arg.b[1]) \o Hex2(arg.b[2]) \o Hex2(arg.b[3])
                              \o Hex2(arg.b[4]))
        [] type = "c" ->
             LET esc == as_escaped_char(Chr(arg.i), TRUE)
             IN  PrintFmt(st, buffer, bs, cols,
                          IF esc # NoEsc THEN <<"'", "\\", esc, "'">>
                          ELSE <<"'", Chr(arg.i), "'">>)
        [] type = "i" -> PrintFmt(st, buffer, bs, cols, DecStr(arg.i))
        [] type = "m" ->
             PrintFmt(st, buffer, bs, cols,
                      <<"M", "I", "D", "I", " ", "[", "0", "x">> \o Hex2(arg.b[1])
                        \o <<" ", "0", "x">> \o Hex2(arg.b[2])
                        \o <<" ", "0", "x">> \o Hex2(arg.b[3])
                        \o <<" ", "0", "x">> \o Hex2(arg.b[4]) \o <<"]">>)
        [] type \in {"s", "S"} -> PrintString(arg, st, buffer, bs, opt, cols)
        [] type = "b" -> PrintBlob(arg, st, buffer, bs, opt, cols)
        [] type = "a" -> PrintArray(args, a, st, buffer, bs, opt, cols)
        [] type = "-" -> PrintRange(args, a, st, buffer, bs, opt, cols)
        [] OTHER -> [st |-> st, wrt |-> 0, cols |-> cols]

\* The loop of rtosc_print_arg_vals; L.awtl is args_written_this_line, a the next arg.
RECURSIVE PrintValsLoop(_, _, _, _, _, _)
PrintValsLoop(args, n, i, a, L, opt) ==
  LET checked(M) == IF args[a].type \in {"-", "a", "s", "S", "b"} THEN M
                    ELSE linebreak_check_after_write(M, M.tmp, opt.linelength)
      separated(M) ==
        IF i + next_arg_offset(args, a) < n
        THEN COUNT_UP_COL([M EXCEPT !.st = strncpy(Abort(M.st, M.bs < 0 \/ Len(opt.sep) < M.bs),
                                                   M.buffer, opt.sep, M.bs),
                                    !.last_sep = M.buffer], Len(opt.sep))
        ELSE M
  IN  IF i >= n \/ L.st.fail THEN L
      ELSE PrintValsLoop(args, n, i + next_arg_offset(args, a), a + next_arg_offset(args, a),
                         separated(checked(PrintNext(args, a, L, opt))), opt)

\* The result is [st, wrt].
rtosc_print_arg_vals(args, n, st, buffer, bs, opt, cols_used) ==
  LET result(M) == [st |-> M.st, wrt |-> M.wrt, cols |-> M.cols]
  IN  result(PrintValsLoop(args, n, 0, 1,
                           [st |-> st, buffer |-> buffer, bs |-> bs, wrt |-> 0,
                            cols |-> cols_used, last_sep |-> buffer - 1,
                            awtl |-> IF cols_used # 0 THEN 1 ELSE 0, tmp |-> 0],
                           opt))


(***************************************************************************)
(* sscanf.  A format is a sequence of directives [k, c, w]: "lit" matches  *)
(* the character c, "ws" any run of white space, "d"/"i"/"x" an integer    *)
(* of at most w characters (0: no limit), "f" a decimal floating point     *)
(* literal, "notnl" is %[^\n], and "n" is %n.  The result is [rd, vals]:   *)
(* rd is what %n stored (0, the callers' initial value, when the match     *)
(* stopped before it) and vals the integers converted so far.              *)
(***************************************************************************)
Lit(c) == [k |-> "lit", c |-> c, w |-> 0]
Ws == [k |-> "ws", c |-> NUL, w |-> 0]
Conv(kind, w) == [k |-> kind, c |-> NUL, w |-> w]
PctN == [k |-> "n", c |-> NUL, w |-> 0]
Lits(cs) == [k \in 1..Len(cs) |-> Lit(cs[k])]

RECURSIVE SkipWs(_, _)
SkipWs(t, p) == IF isspace(At(t, p)) THEN SkipWs(t, p + 1) ELSE p

IsDigitOf(c, base) ==
  IF base = 16 THEN isxdigit(c)
  ELSE IF base = 8 THEN c \in {"0", "1", "2", "3", "4", "5", "6", "7"}
  ELSE isdigit(c)

\* The end of the run of base-digits that starts at p and is at most max long.
RECURSIVE DigitsEnd(_, _, _, _)
DigitsEnd(t, p, base, max) ==
  IF max > 0 /\ IsDigitOf(At(t, p), base) THEN DigitsEnd(t, p + 1, base, max - 1) ELSE p

\* The value of the digits t[p..q-1].
RECURSIVE DigitsValue(_, _, _, _)
DigitsValue(t, p, q, base) ==
  IF q <= p THEN 0 ELSE DigitsValue(t, p, q - 1, base) * base + DigitVal(t[q - 1])

NoLimit == 64

\* The digits t[p3..q-1] of an integer conversion, negated when neg.
NumDigits(t, S, neg, base, p3, q) ==
  [p |-> q, ok |-> q > p3,
   vals |-> IF q > p3
            THEN Append(S.vals, (IF neg THEN -1 ELSE 1) * DigitsValue(t, p3, q, base))
            ELSE S.vals]

\* The digits of an integer conversion: at most max of them from p3 on.
NumRun(t, S, neg, base, p3, max) ==
  NumDigits(t, S, neg, base, p3, DigitsEnd(t, p3, base, max))

\* The base of an integer conversion after its sign: a prefix 0x for %i and %x,
\* a leading 0 for %i.
NumBase(t, S, kind, neg, p2, max, prefixed) ==
  IF prefixed THEN NumRun(t, S, neg, 16, p2 + 2, max - 2)
  ELSE NumRun(t, S, neg,
              IF kind = "x" THEN 16 ELSE IF kind = "i" /\ At(t, p2) = "0" THEN 8 ELSE 10,
              p2, max)

\* The base prefix of an integer conversion after its sign.
NumPrefix(t, S, kind, neg, p2, max) ==
  NumBase(t, S, kind, neg, p2, max,
          /\ kind \in {"i", "x"} /\ max > 2 /\ At(t, p2) = "0"
          /\ At(t, p2 + 1) \in {"x", "X"} /\ isxdigit(At(t, p2 + 2)))

\* The sign of an integer conversion at p1 of at most max characters.
NumSign(t, S, kind, p1, max, signed) ==
  NumPrefix(t, S, kind, signed /\ At(t, p1) = "-", IF signed THEN p1 + 1 ELSE p1,
            IF signed THEN max - 1 ELSE max)

\* The number of an integer conversion after the white space.
NumSigned(t, S, kind, max, p1) ==
  NumSign(t, S, kind, p1, max, At(t, p1) \in {"+", "-"} /\ max > 1)

\* An integer conversion (%d, %i, %x of width w) on the state S of sscanf:
\* white space, a sign, a base prefix, digits.
ParseNum(t, S, kind, w) ==
  NumSigned(t, S, kind, IF w = 0 THEN NoLimit ELSE w, SkipWs(t, S.p))

\* The exponent of a floating point conversion whose mantissa ends at p4;
\* digits is the mantissa's number of digits, q where the exponent's digits
\* would start.
FloatExponent(t, S, digits, p4, q) ==
  [p |-> IF At(t, p4) \in {"e", "E"} /\ isdigit(At(t, q))
         THEN DigitsEnd(t, q, 10, NoLimit) ELSE p4,
   ok |-> digits > 0, vals |-> S.vals]

\* The fraction of a floating point conversion whose digits are t[p2..p3-1].
FloatFraction(t, S, p2, p3, p4) ==
  FloatExponent(t, S, (p3 - p2) + (IF p4 > p3 THEN p4 - p3 - 1 ELSE 0), p4,
                p4 + (IF At(t, p4 + 1) \in {"+", "-"} THEN 2 ELSE 1))

\* The mantissa of a floating point conversion after its sign.
FloatMantissa(t, S, p2, p3) ==
  FloatFraction(t, S, p2, p3,
                IF At(t, p3) = "." THEN DigitsEnd(t, p3 + 1, 10, NoLimit) ELSE p3)

\* The digits of a floating point conversion after its sign.
FloatDigits(t, S, p2) == FloatMantissa(t, S, p2, DigitsEnd(t, p2, 10, NoLimit))

\* The sign of a floating point conversion after the white space.
FloatSign(t, S, p1) == FloatDigits(t, S, IF At(t, p1) \in {"+", "-"} THEN p1 + 1 ELSE p1)

\* A floating point conversion (decimal literals only) on the state S of
\* sscanf: white space, a sign, digits, a fraction, an exponent.
ParseFloat(t, S) == FloatSign(t, S, SkipWs(t, S.p))

RECURSIVE NotNlEnd(_, _)
NotNlEnd(t, p) == IF At(t, p) \notin {"\n", NUL} THEN NotNlEnd(t, p + 1) ELSE p

\* One directive d of a format, on the state S = [ok, p, vals] of sscanf: p is
\* the position in the text, vals the values assigned so far, ok turns FALSE
\* when the text does not match.
Directive(t, S, d) ==
  CASE d.k = "lit" -> [ok |-> At(t, S.p) = d.c, p |-> S.p + 1, vals |-> S.vals]
    [] d.k = "ws" -> [ok |-> TRUE, p |-> SkipWs(t, S.p), vals |-> S.vals]
    [] d.k = "notnl" -> [ok |-> NotNlEnd(t, S.p) > S.p, p |-> NotNlEnd(t, S.p),
                         vals |-> S.vals]
    [] d.k = "f" -> ParseFloat(t, S)
    [] OTHER -> ParseNum(t, S, d.k, d.w)

\* The directives of fmt from the kth on; the result is [rd, vals], rd what %n
\* stored (0 when the text stopped matching before %n, as rd was initialised).
RECURSIVE sscanf_from(_, _, _, _, _)
sscanf_from(t, p0, fmt, k, S) ==
  CASE ~S.ok -> [rd |-> 0, vals |-> S.vals]
    [] k > Len(fmt) -> [rd |-> 0, vals |-> S.vals]
    [] fmt[k].k = "n" -> [rd |-> S.p - p0, vals |-> S.vals]
    [] OTHER -> sscanf_from(t, p0, fmt, k + 1, Directive(t, S, fmt[k]))

sscanf(t, p, fmt) == sscanf_from(t, p, fmt, 1, [ok |-> TRUE, p |-> p, vals |-> <<>>])

\* skip_fmt: the bytes skipped; the caller adds them to src.
skip_fmt(t, src, fmt) == sscanf(t, src, fmt).rd

\* skip_fmt_null: the new src, NULL (0) when nothing matched.
skip_fmt_null(t, src, fmt) ==
  LET moved(n) == IF n = 0 THEN 0 ELSE src + n
  IN  moved(skip_fmt(t, src, fmt))

\* skip_while(&s, isspace)
skip_while_isspace(t, src) == SkipWs(t, src)



\* The format strings the code passes to sscanf, as directives.  A suppressed
\* conversion (%*d) consumes what the assigning one (%d) consumes; PRIx32, PRIi32
\* and PRIx64 are written x, i and x.
Format(fmt) ==
  CASE fmt \in {"MIDI [ 0x%x 0x%x 0x%x 0x%x ]%n",
                "MIDI [ 0x%*x 0x%*x 0x%*x 0x%*x ]%n"} ->
         Lits(<<"M", "I", "D", "I">>) \o <<Ws, Lit("["), Ws>>
         \o <<Lit("0"), Lit("x"), Conv("x", 0), Ws, Lit("0"), Lit("x"), Conv("x", 0), Ws>>
         \o <<Lit("0"), Lit("x"), Conv("x", 0), Ws, Lit("0"), Lit("x"), Conv("x", 0), Ws>>
         \o <<Lit("]"), PctN>>
    [] fmt = "BLOB [ %n" ->
         Lits(<<"B", "L", "O", "B">>) \o <<Ws, Lit("["), Ws, PctN>>
    [] fmt = "%i %n" ->
         <<Conv("i", 0), Ws, PctN>>
    [] fmt = "BLOB [ %i %n" ->
         Lits(<<"B", "L", "O", "B">>) \o <<Ws, Lit("["), Ws, Conv("i", 0), Ws, PctN>>
    [] fmt \in {"0x%x %n", "0x%*x %n"} ->
         <<Lit("0"), Lit("x"), Conv("x", 0), Ws, PctN>>
    [] fmt = " )%n" ->
         <<Ws, Lit(")"), PctN>>
    [] fmt = "\"\\ \"%n" ->
         <<Lit("\""), Lit("\\"), Ws, Lit("\""), PctN>>
    [] fmt = "%*[^\n] %n" ->
         <<Conv("notnl", 0), Ws, PctN>>
    [] fmt = "%*[^\n]%n" ->
         <<Conv("notnl", 0), PctN>>
    [] fmt = " %n" ->
         <<Ws, PctN>>
    [] fmt = "%dx%n" ->
         <<Conv("d", 0), Lit("x"), PctN>>
    [] fmt = "%*4d-%*1d%*1d-%*1d%*1d%n" ->
         <<Conv("d", 4), Lit("-"), Conv("d", 1), Conv("d", 1), Lit("-"), Conv("d", 1),
           Conv("d", 1), PctN>>
    [] fmt = "%4d-%2d-%2d%n" ->
         <<Conv("d", 4), Lit("-"), Conv("d", 2), Lit("-"), Conv("d", 2), PctN>>
    [] fmt = " %2d:%2d%n" ->
         <<Ws, Conv("d", 2), Lit(":"), Conv("d", 2), PctN>>
    [] fmt = ":%2d%n" ->
         <<Lit(":"), Conv("d", 2), PctN>>
    [] fmt = "%*f (%n" ->
         <<Conv("f", 0), Ws, Lit("("), PctN>>
    [] fmt = " ... + 0x%8xp-32 s )%n" ->
         <<Ws>> \o Lits(<<".", ".", ".">>)
         \o <<Ws, Lit("+"), Ws, Lit("0"), Lit("x"), Conv("x", 8)>>
         \o Lits(<<"p", "-", "3", "2">>) \o <<Ws, Lit("s"), Ws, Lit(")"), PctN>>
    [] fmt = "%f%n" ->
         <<Conv("f", 0), PctN>>
    [] fmt = ".%*d%n" ->
         <<Lit("."), Conv("d", 0), PctN>>
    [] fmt = " %*2d:%*1d%*1d%n" ->
         <<Ws, Conv("d", 2), Lit(":"), Conv("d", 1), Conv("d", 1), PctN>>
    [] fmt = ":%*1d%*1d%n" ->
         <<Lit(":"), Conv("d", 1), Conv("d", 1), PctN>>
    [] fmt = " ( ... + 0x%n" ->
         <<Ws, Lit("("), Ws>> \o Lits(<<".", ".", ".">>)
         \o <<Ws, Lit("+"), Ws, Lit("0"), Lit("x"), PctN>>
    [] fmt = "%*x.%n" ->
         <<Conv("x", 0), Lit("."), PctN>>
    [] fmt = "%*xp%n" ->
         <<Conv("x", 0), Lit("p"), PctN>>
    [] fmt = "-%d s )%n" ->
         <<Lit("-"), Conv("d", 0), Ws, Lit("s"), Ws, Lit(")"), PctN>>

\* The numeric formats of scanf_fmtstr, in the order they are tried, with their types.
NumericFmts ==
  << [type |-> "h", fmt |-> <<Conv("i", 0), Lit("h"), PctN>>],
     [type |-> "i", fmt |-> <<Conv("i", 0), Lit("i"), PctN>>],
     [type |-> "i", fmt |-> <<Conv("i", 0), PctN>>],
     [type |-> "d", fmt |-> <<Conv("f", 0), Lit("d"), PctN>>],
     [type |-> "f", fmt |-> <<Conv("f", 0), Lit("f"), PctN>>],
     [type |-> "f", fmt |-> <<Conv("f", 0), PctN>>] >>

\* The end of the word at src: the string end, white space, ')', ']' or "...".
RECURSIVE WordEnd(_, _)
WordEnd(t, p) ==
  IF At(t, p) # NUL /\ ~isspace(At(t, p)) /\ At(t, p) # ")" /\ At(t, p) # "]"
     /\ ~StartsWith(t, p, <<".", ".", ".">>)
  THEN WordEnd(t, p + 1) ELSE p

\* scanf_fmtstr: the index in NumericFmts of the first format that reads the
\* whole word, 0 (NULL) when none does.
scanf_fmtstr(t, src) ==
  LET first(ok) == IF ok = {} THEN 0 ELSE CHOOSE k \in ok : \A j \in ok : k <= j
  IN  first({k \in 1..6 : sscanf(t, src, NumericFmts[k].fmt).rd = WordEnd(t, src) - src})

\* The second half of skip_numeric: the format found is read once more.
SkipNumericFmt(t, src, k) ==
  IF k = 0 THEN [rd |-> 0, type |-> ""]
  ELSE [rd |-> skip_fmt(t, src, NumericFmts[k].fmt), type |-> NumericFmts[k].type]

\* skip_numeric: [rd, type]; type is left alone ("") when no format matches.
skip_numeric(t, src) == SkipNumericFmt(t, src, scanf_fmtstr(t, src))

get_escaped_char(c, chr) ==
  CASE c = "a" -> BEL
    [] c = "b" -> BS
    [] c = "t" -> "\t"
    [] c = "n" -> "\n"
    [] c = "v" -> VT
    [] c = "f" -> "\f"
    [] c = "r" -> "\r"
    [] c = "\\" -> "\\"
    [] OTHER -> IF chr /\ c = "'" THEN "'"
                ELSE IF ~chr /\ c = "\"" THEN "\""
                ELSE NUL

\* skip_word if no word ever matched.
skip_no_word(exp, t, str) == 0

\* skip_word: the position after the word, or NULL (0); *str moves only on a match.
skip_word(exp, t, str) ==
  LET ends(c) == c = NUL \/ c = "/" \/ c = "]" \/ isspace(c)
  IN  IF StartsWith(t, str, exp) /\ ends(At(t, str + Len(exp))) THEN str + Len(exp) ELSE 0

RECURSIVE IdentEnd(_, _)
IdentEnd(t, p) == IF isalnum(At(t, p)) \/ At(t, p) = "_" THEN IdentEnd(t, p + 1) ELSE p

skip_identifier(t, str) ==
  IF ~isalpha(At(t, str)) /\ At(t, str) # "_" THEN 0 ELSE IdentEnd(t, str + 1)

is_range_multiplier(t, s) ==
  isdigit(At(t, s)) /\ At(t, s) # "0" /\ At(t, DigitsEnd(t, s, 10, NoLimit)) = "x"

allowed_range_types == {"c", "i", "h", "f", "d"}


(***************************************************************************)
(* Arg val arithmetic (rtosc/arg-val-math.h and arg-val-cmp.h, consumed by *)
(* this file).  A value of the integer-like types 'i', 'h' and 'c' is its  *)
(* field i; a value of the types 'f' and 'd' is the fraction i / x, x > 0. *)
(***************************************************************************)
\* C's integer division, which truncates towards zero.
TruncDiv(a, b) ==
  LET q == (IF a < 0 THEN 0 - a ELSE a) \div (IF b < 0 THEN 0 - b ELSE b)
  IN  IF b = 0 THEN 0
      ELSE IF (a < 0) # (b < 0) THEN 0 - q ELSE q

IntLike == {"i", "h", "c"}
FloatLike == {"f", "d"}
FloatArg(type, n, d) == AV(type, n, <<>>, <<>>, d)
Abs(n) == IF n < 0 THEN 0 - n ELSE n
\* The float tolerance of delta_from_arg_vals, 0.001, as its reciprocal.
ToleranceInverse == 1000

\* rtosc_arg_vals_cmp of two single values: the sign of the comparison.
rtosc_arg_vals_cmp(a, b) ==
  IF a.type # b.type THEN (IF Ord(a.type) < Ord(b.type) THEN -1 ELSE 1)
  ELSE IF a.type \in FloatLike
  THEN (IF a.i * b.x = b.i * a.x THEN 0 ELSE IF a.i * b.x < b.i * a.x THEN -1 ELSE 1)
  ELSE IF a.i = b.i THEN 0 ELSE IF a.i < b.i THEN -1 ELSE 1

\* rtosc_arg_vals_eq of two single values with the float tolerance 0.001.
rtosc_arg_vals_eq(a, b) ==
  /\ a.type = b.type
  /\ IF a.type \in FloatLike
     THEN ToleranceInverse * Abs(a.i * b.x - b.i * a.x) <= a.x * b.x
     ELSE a.i = b.i

rtosc_arg_val_sub(a, b) ==
  IF a.type \in FloatLike THEN FloatArg(a.type, a.i * b.x - b.i * a.x, a.x * b.x)
  ELSE IntArg(a.type, a.i - b.i)
rtosc_arg_val_div(a, b) ==
  IF a.type \in FloatLike
  THEN FloatArg(a.type, (IF b.i < 0 THEN 0 - a.i ELSE a.i) * b.x, a.x * Abs(b.i))
  ELSE IntArg(a.type, TruncDiv(a.i, b.i))
rtosc_arg_val_mult(a, b) ==
  IF a.type \in FloatLike THEN FloatArg(a.type, a.i * b.i, a.x * b.x)
  ELSE IntArg(a.type, a.i * b.i)
\* Rounding to the nearest whole number, halves away from zero.
rtosc_arg_val_round(a) ==
  IF a.type \in FloatLike
  THEN FloatArg(a.type, TruncDiv(2 * a.i + (IF a.i < 0 THEN 0 - a.x ELSE a.x), 2 * a.x), 1)
  ELSE a
rtosc_arg_val_to_int(a) == IF a.type \in FloatLike THEN TruncDiv(a.i, a.x) ELSE a.i
rtosc_arg_val_from_int(type, n) ==
  IF type \in FloatLike THEN FloatArg(type, n, 1) ELSE IntArg(type, n)

\* delta_from_arg_vals returning res where the code returns res + 1.
delta_not_incremented(llhsarg, lhsarg, rhsarg, has_rhs, must_be_unity) ==
  LET count(delta, width, div) ==
        IF ~rtosc_arg_vals_eq(width, rtosc_arg_val_mult(div, delta)) THEN -1
        ELSE rtosc_arg_val_to_int(div)
      range(delta, cmp) ==
        [num |-> IF cmp = 0 THEN -1
                 ELSE IF has_rhs
                      THEN count(delta, rtosc_arg_val_sub(rhsarg, lhsarg),
                                 rtosc_arg_val_round(
                                   rtosc_arg_val_div(rtosc_arg_val_sub(rhsarg, lhsarg), delta)))
                      ELSE -1,
         delta |-> delta, ub |-> FALSE]
      unity(cmp) == range(rtosc_arg_val_from_int(rhsarg.type, IF cmp > 0 THEN -1 ELSE 1), cmp)
      given(delta) == range(delta, rtosc_arg_vals_cmp(delta,
                                                      rtosc_arg_val_from_int(delta.type, 0)))
  IN  IF must_be_unity THEN unity(rtosc_arg_vals_cmp(lhsarg, rhsarg))
      ELSE given(rtosc_arg_val_sub(lhsarg, llhsarg))

\* delta_from_arg_vals without the comparison of width and width2.
delta_unchecked(llhsarg, lhsarg, rhsarg, has_rhs, must_be_unity) ==
  LET range(delta, cmp) ==
        [num |-> IF cmp = 0 THEN -1
                 ELSE IF has_rhs
                      THEN rtosc_arg_val_to_int(rtosc_arg_val_round(
                             rtosc_arg_val_div(rtosc_arg_val_sub(rhsarg, lhsarg), delta))) + 1
                      ELSE 0,
         delta |-> delta, ub |-> FALSE]
      unity(cmp) == range(rtosc_arg_val_from_int(rhsarg.type, IF cmp > 0 THEN -1 ELSE 1), cmp)
      given(delta) == range(delta, rtosc_arg_vals_cmp(delta,
                                                      rtosc_arg_val_from_int(delta.type, 0)))
  IN  IF must_be_unity THEN unity(rtosc_arg_vals_cmp(lhsarg, rhsarg))
      ELSE given(rtosc_arg_val_sub(lhsarg, llhsarg))

\* delta_from_arg_vals with a result of -1 for every infinite range.
delta_never_infinite(llhsarg, lhsarg, rhsarg, has_rhs, must_be_unity) ==
  LET count(delta, width, div) ==
        IF ~rtosc_arg_vals_eq(width, rtosc_arg_val_mult(div, delta)) THEN -1
        ELSE rtosc_arg_val_to_int(div) + 1
      range(delta, cmp) ==
        [num |-> IF cmp = 0 \/ ~has_rhs THEN -1
                 ELSE count(delta, rtosc_arg_val_sub(rhsarg, lhsarg),
                            rtosc_arg_val_round(
                              rtosc_arg_val_div(rtosc_arg_val_sub(rhsarg, lhsarg), delta))),
         delta |-> delta, ub |-> FALSE]
      unity(cmp) == range(rtosc_arg_val_from_int(rhsarg.type, IF cmp > 0 THEN -1 ELSE 1), cmp)
      given(delta) == range(delta, rtosc_arg_vals_cmp(delta,
                                                      rtosc_arg_val_from_int(delta.type, 0)))
  IN  IF must_be_unity THEN unity(rtosc_arg_vals_cmp(lhsarg, rhsarg))
      ELSE given(rtosc_arg_val_sub(lhsarg, llhsarg))

\* delta_from_arg_vals with a unity delta that is never negated.
delta_never_negated(llhsarg, lhsarg, rhsarg, has_rhs, must_be_unity) ==
  LET count(delta, width, div) ==
        IF ~rtosc_arg_vals_eq(width, rtosc_arg_val_mult(div, delta)) THEN -1
        ELSE rtosc_arg_val_to_int(div) + 1
      range(delta, cmp) ==
        [num |-> IF cmp = 0 THEN -1
                 ELSE IF has_rhs
                      THEN count(delta, rtosc_arg_val_sub(rhsarg, lhsarg),
                                 rtosc_arg_val_round(
                                   rtosc_arg_val_div(rtosc_arg_val_sub(rhsarg, lhsarg), delta)))
                      ELSE 0,
         delta |-> delta, ub |-> FALSE]
      unity(cmp) == range(rtosc_arg_val_from_int(rhsarg.type, 1), cmp)
      given(delta) == range(delta, rtosc_arg_vals_cmp(delta,
                                                      rtosc_arg_val_from_int(delta.type, 0)))
  IN  IF must_be_unity THEN unity(rtosc_arg_vals_cmp(lhsarg, rhsarg))
      ELSE given(rtosc_arg_val_sub(lhsarg, llhsarg))

\* The result of delta_from_arg_vals: [num, delta, ub]; ub when an operand is not
\* of a numeric type (the arithmetic of the other types is not modelled).
delta_from_arg_vals(llhsarg, lhsarg, rhsarg, has_rhs, must_be_unity) ==
  LET Numeric == IntLike \cup FloatLike
      ub == \/ lhsarg.type \notin Numeric
            \/ (has_rhs \/ must_be_unity) /\ rhsarg.type \notin Numeric
            \/ ~must_be_unity /\ llhsarg.type \notin Numeric
      count(delta, width, div) ==
        IF ~rtosc_arg_vals_eq(width, rtosc_arg_val_mult(div, delta)) THEN -1
        ELSE rtosc_arg_val_to_int(div) + 1
      range(delta, cmp) ==
        [num |-> IF cmp = 0 THEN -1
                 ELSE IF has_rhs
                      THEN count(delta, rtosc_arg_val_sub(rhsarg, lhsarg),
                                 rtosc_arg_val_round(
                                   rtosc_arg_val_div(rtosc_arg_val_sub(rhsarg, lhsarg), delta)))
                      ELSE 0,
         delta |-> delta, ub |-> ub]
      unity(cmp) == range(rtosc_arg_val_from_int(rhsarg.type, IF cmp > 0 THEN -1 ELSE 1), cmp)
      given(delta) == range(delta, rtosc_arg_vals_cmp(delta,
                                                      rtosc_arg_val_from_int(delta.type, 0)))
  IN  IF must_be_unity THEN unity(rtosc_arg_vals_cmp(lhsarg, rhsarg))
      ELSE given(rtosc_arg_val_sub(lhsarg, llhsarg))

(***************************************************************************)
(* The scanner.  A scan state is [args, bufsize, nullbuf, fail, ub]: args  *)
(* the slots written so far (the caller's array, which the code never      *)
(* bounds), bufsize what is left of the string buffer, nullbuf whether     *)
(* the string buffer is NULL, fail a failed assert(), and ub undefined     *)
(* behaviour: a read of something never written, a write through NULL, a   *)
(* read past the text's end, or a loop that never ends.                    *)
(***************************************************************************)
NewScanState(bufsize, nullbuf) ==
  [args |-> <<>>, bufsize |-> bufsize, nullbuf |-> nullbuf, fail |-> FALSE, ub |-> FALSE]

ScanAbort(sc, ok) == IF ok THEN sc ELSE [sc EXCEPT !.fail = TRUE]
ScanUb(sc, bad) == IF bad THEN [sc EXCEPT !.ub = TRUE] ELSE sc

\* args[idx] = v
WriteArg(sc, idx, v) ==
  IF sc.fail THEN sc
  ELSE IF idx < 1 THEN [sc EXCEPT !.ub = TRUE]
  ELSE IF idx <= Len(sc.args) THEN [sc EXCEPT !.args[idx] = v]
  ELSE [sc EXCEPT !.args = sc.args \o [k \in 1..(idx - Len(sc.args)) |->
                                         IF k = idx - Len(sc.args) THEN v ELSE Uninit]]

ReadArg(sc, idx) == IF idx >= 1 /\ idx <= Len(sc.args) THEN sc.args[idx] ELSE Uninit

\* One byte stored in the string buffer after "(*bufsize)--".
StoreByte(sc, asserted) ==
  ScanUb(ScanAbort([sc EXCEPT !.bufsize = sc.bufsize - 1], ~asserted \/ sc.bufsize - 1 # 0),
         sc.nullbuf)

\* The characters of acc up to the first NUL.
RECURSIVE CutAtNul(_)
CutAtNul(acc) == IF acc = <<>> \/ Head(acc) = NUL THEN <<>>
                 ELSE <<Head(acc)>> \o CutAtNul(Tail(acc))

\* parse_identifier: [src, sc]
parse_identifier(t, src, sc, arg) ==
  LET \* assert((*bufsize)--) once per character and once for the terminator
      ident(e) ==
        [src |-> e,
         sc |-> WriteArg(ScanUb(ScanAbort([sc EXCEPT !.bufsize = sc.bufsize - (e - src + 1)],
                                          sc.bufsize < 0 \/ sc.bufsize > e - src),
                                sc.nullbuf),
                         arg, StrArg("S", SubSeq(t, src, e - 1)))]
  IN  IF At(t, src) = "_" \/ isalpha(At(t, src)) THEN ident(IdentEnd(t, src))
      ELSE [src |-> src, sc |-> sc]

\* The loops of case '"'; L is [src, sc, acc], acc the characters stored so far.
\* In the result src is at the final closing quote.
RECURSIVE ScanStrLoop(_, _)
ScanStrLoop(t, L) ==
  IF L.sc.fail \/ L.sc.ub THEN L
  ELSE IF At(t, L.src) = NUL THEN [L EXCEPT !.sc = ScanUb(L.sc, TRUE)]
  ELSE IF At(t, L.src) # "\""
  THEN ScanStrLoop(t, [src |-> L.src + (IF At(t, L.src) = "\\" THEN 2 ELSE 1),
                       sc |-> StoreByte(L.sc, TRUE),
                       acc |-> Append(L.acc,
                                      IF At(t, L.src) = "\\"
                                      THEN get_escaped_char(At(t, L.src + 1), FALSE)
                                      ELSE At(t, L.src))])
  ELSE IF At(t, L.src + 1) # "\\" THEN L
  ELSE IF skip_fmt(t, L.src, Format("\"\\ \"%n")) = 0 THEN [L EXCEPT !.sc = ScanUb(L.sc, TRUE)]
  ELSE ScanStrLoop(t, [L EXCEPT !.src = L.src + skip_fmt(t, L.src, Format("\"\\ \"%n"))])

\* The bytes of a blob; L is [src, sc, n, data], n the bytes still to read.
RECURSIVE ScanBlobLoop(_, _)
ScanBlobLoop(t, L) ==
  LET byte(r) ==
        IF Len(r.vals) = 0 \/ r.rd = 0 THEN [L EXCEPT !.sc = ScanUb(L.sc, TRUE), !.n = 0]
        ELSE [src |-> L.src + r.rd, sc |-> L.sc, n |-> L.n - 1,
              data |-> Append(L.data, r.vals[1] % 256)]
  IN  IF L.n <= 0 \/ L.sc.ub THEN L
      ELSE ScanBlobLoop(t, byte(sscanf(t, L.src, Format("0x%x %n"))))

\* The four bytes of the color whose hex digits are t[p..q-1] (at most 8).
ColorBytes(t, p, q) ==
  LET n == q - p
      digit(k) == IF k > 8 - n THEN DigitVal(t[p + k - (8 - n) - 1]) ELSE 0
  IN  [j \in 1..4 |-> digit(2 * j - 1) * 16 + digit(2 * j)]




\* The end of the date branch, after skip_fmt(&src, "%*f (%n") returned par.
ScanDateFraction(t, p3, sc, arg, fields, par) ==
  LET result(p, frac) ==
        [src |-> p, sc |-> ScanUb(WriteArg(sc, arg, AV("t", 0, frac, fields, 0)),
                                  Len(fields) < 6)]
      lossless(p, ll) ==
        result(p + ll.rd, IF Len(ll.vals) > 0 THEN DecStr(ll.vals[1]) ELSE <<>>)
      float(fr) == result(p3 + fr.rd, SubSeq(t, p3, p3 + fr.rd - 1))
  IN  IF par # 0 THEN lossless(p3 + par, sscanf(t, p3 + par, Format(" ... + 0x%8xp-32 s )%n")))
      ELSE IF At(t, p3) = "." THEN float(sscanf(t, p3, Format("%f%n")))
      ELSE result(p3, <<>>)

\* sscanf(src, ":%2d%n") read se; fields holds a 0 where a field was never stored.
ScanDateSec(t, p2, sc, arg, fields, se) ==
  ScanDateFraction(t, p2 + se.rd, sc, arg, fields \o (IF se.rd # 0 THEN se.vals ELSE <<0>>),
                   skip_fmt(t, p2 + se.rd, Format("%*f (%n")))

\* sscanf(src, " %2d:%2d%n") read hm.
ScanDateMin(t, p1, sc, arg, fields, hm) ==
  ScanDateSec(t, p1 + hm.rd, sc, arg, fields \o (IF hm.rd # 0 THEN hm.vals ELSE <<0, 0>>),
              sscanf(t, p1 + hm.rd, Format(":%2d%n")))

\* sscanf(src, "%4d-%2d-%2d%n") read d; fewer than three fields leave rd and the
\* date uninitialized.
ScanDateHourMin(t, src, sc, arg, d) ==
  ScanDateMin(t, src + d.rd, sc, arg, d.vals, sscanf(t, src + d.rd, Format(" %2d:%2d%n")))

\* The date branch: [src, sc].  The calendar fields stand for what mktime makes of
\* them, the fraction for the literal that gave it.
ScanDate(t, src, sc, arg) ==
  ScanDateHourMin(t, src, sc, arg, sscanf(t, src, Format("%4d-%2d-%2d%n")))

\* sscanf(src, fmtstr, &arg->val, &rd) with the format scanf_fmtstr found (k; 0 is
\* NULL): [ub, type, rd, v, lit].  A floating point value is held as its literal.
ScanNumber(t, src, k) ==
  LET got(r, type) ==
        [ub |-> k = 0 \/ (type \in {"i", "h"} /\ Len(r.vals) = 0),
         type |-> type, rd |-> r.rd,
         v |-> IF type \in {"i", "h"} /\ Len(r.vals) > 0 THEN r.vals[1] ELSE 0,
         lit |-> IF type \in {"f", "d"} THEN SubSeq(t, src, src + r.rd - 1) ELSE <<>>]
  IN  IF k = 0 THEN got([rd |-> 0, vals |-> <<>>], "")
      ELSE got(sscanf(t, src, NumericFmts[k].fmt), NumericFmts[k].type)

\* The do-while loop of the numeric branch: the number, and once more
\* (repeat_once) the lossless representation in parentheses: [src, sc].
RECURSIVE ScanNumericLoop(_, _, _, _, _, _)
ScanNumericLoop(t, src, sc, arg, type0, repeat_once) ==
  LET stored(n, type) ==
        ScanUb(WriteArg(sc, arg, AV(type, n.v, n.lit, <<>>, 0)), sc.ub \/ n.ub)
      number(n, type, after_num) ==
        IF repeat_once
        THEN [src |-> src + n.rd + skip_fmt(t, src + n.rd, Format(" )%n")),
              sc |-> stored(n, type)]
        ELSE IF ~n.ub /\ At(t, after_num) = "("
        THEN ScanNumericLoop(t, SkipWs(t, after_num + 1), stored(n, type), arg, type, TRUE)
        ELSE [src |-> src + n.rd, sc |-> stored(n, type)]
      read(n) == number(n, IF type0 = "" THEN n.type ELSE type0, SkipWs(t, src + n.rd))
  IN  read(ScanNumber(t, src, scanf_fmtstr(t, src)))

\* The numeric branch, with the lossless part in parentheses read over the first
\* value: [src, sc].  A floating point value is held as its literal.
ScanNumeric(t, src, sc, arg) == ScanNumericLoop(t, src, sc, arg, "", FALSE)

RECURSIVE rtosc_scan_arg_val(_, _, _, _, _, _, _)
RECURSIVE ScanArrayLoop(_, _, _)

\* The loop of case '[': L is [src, sc, arg, nargs, num_read, arrtype], i the
\* element index.
ScanArrayLoop(t, L, i) ==
  LET next(r) ==
        LET element(a, args_scanned) ==
              [\* an element that consumes nothing is scanned for ever
               sc |-> IF r.rd = 0 THEN ScanUb(r.sc, TRUE) ELSE r.sc,
               src |-> SkipWs(t, L.src + r.rd),
               arg |-> L.arg + args_scanned, nargs |-> L.nargs - args_scanned,
               num_read |-> L.num_read + args_scanned,
               arrtype |-> IF a.type = "-"
                           THEN ReadArg(r.sc, L.arg + (IF a.x # 0 THEN 2 ELSE 1)).type
                           ELSE a.type]
        IN  element(ReadArg(r.sc, L.arg), next_arg_offset(r.sc.args, L.arg))
  IN  IF \/ L.src = 0
         \/ At(t, L.src) = NUL
         \/ At(t, L.src) = "]"
         \/ L.sc.fail
         \/ L.sc.ub
      THEN L
      ELSE ScanArrayLoop(t, next(rtosc_scan_arg_val(t, L.src, L.sc, L.arg, L.nargs, i, 1)),
                         i + 1)

\* The switch of rtosc_scan_arg_val: [src, sc, arg], arg the slot the code's
\* "arg" points to afterwards.
ScanSwitch(t, src, sc, arg, nargs) ==
  LET c == At(t, src)
      same(r) == [src |-> r.src, sc |-> r.sc, arg |-> arg]
      put(n, v) == [src |-> src + n, sc |-> WriteArg(sc, arg, v), arg |-> arg]
      color(e) ==
        [src |-> src + 9,
         sc |-> ScanUb(WriteArg(sc, arg, BytesArg("r", ColorBytes(t, src + 1, e))),
                       e = src + 1 \/ e > src + 9),
         arg |-> arg]
      string(r) ==
        LET \* *dest = 0; ++src; (*bufsize)--;
            closed(s1) ==
              IF At(t, r.src + 1) = "S"
              THEN [src |-> r.src + 2,
                    sc |-> WriteArg([s1 EXCEPT !.bufsize = s1.bufsize - 1], arg,
                                    StrArg("S", CutAtNul(r.acc))),
                    arg |-> arg]
              ELSE [src |-> r.src + 1, sc |-> WriteArg(s1, arg, StrArg("s", CutAtNul(r.acc))),
                    arg |-> arg]
        IN  closed(ScanUb([r.sc EXCEPT !.bufsize = r.sc.bufsize - 1], sc.nullbuf))
      midi(r) ==
        [src |-> src + r.rd,
         sc |-> ScanUb(WriteArg(sc, arg,
                                BytesArg("m", [k \in 1..4 |-> IF k <= Len(r.vals)
                                                              THEN r.vals[k] % 256 ELSE 0])),
                       Len(r.vals) < 4),
         arg |-> arg]
      array(L1) ==
        [src |-> L1.src + 1, sc |-> WriteArg(L1.sc, arg, ArrayArg(L1.arrtype, L1.num_read)),
         arg |-> L1.arg]
      blob(h) ==
        LET len == IF Len(h.vals) > 0 THEN h.vals[1] ELSE 0
            bytes(r) == [src |-> r.src + 1,
                         sc |-> WriteArg(r.sc, arg, AV("b", len, <<>>, r.data, 0)),
                         arg |-> arg]
            sized(s1) == ScanUb(ScanAbort([s1 EXCEPT !.bufsize = s1.bufsize - len],
                                          s1.bufsize < 0 \/ s1.bufsize >= len),
                                len > 0 /\ sc.nullbuf)
        IN  bytes(ScanBlobLoop(t, [src |-> src + h.rd, sc |-> sized(ScanUb(sc, Len(h.vals) = 0)),
                                    n |-> len, data |-> <<>>]))
      multiplier(m) ==
        LET value(r) == [src |-> src + m.rd + r.rd, sc |-> r.sc,
                         arg |-> arg + 1 + next_arg_offset(r.sc.args, arg + 1)]
        IN  value(rtosc_scan_arg_val(t, src + m.rd, WriteArg(sc, arg, RangeArg(m.vals[1], 0)),
                                     arg + 1, nargs, 0, 0))
  IN
  CASE c \in {"t", "f", "n", "i"} ->
         IF skip_word(<<"i", "m", "m", "e", "d", "i", "a", "t", "e", "l", "y">>, t, src) # 0
         THEN put(11, IntArg("t", 1))
         ELSE IF skip_word(<<"n", "o", "w">>, t, src) # 0 THEN put(3, IntArg("t", 1))
         ELSE IF skip_word(<<"n", "i", "l">>, t, src) # 0 THEN put(3, Plain("N"))
         ELSE IF skip_word(<<"i", "n", "f">>, t, src) # 0 THEN put(3, Plain("I"))
         ELSE IF skip_word(<<"t", "r", "u", "e">>, t, src) # 0 THEN put(4, Plain("T"))
         ELSE IF skip_word(<<"f", "a", "l", "s", "e">>, t, src) # 0 THEN put(5, Plain("F"))
         ELSE same(parse_identifier(t, src, sc, arg))
    [] c = "#" -> color(DigitsEnd(t, src + 1, 16, NoLimit))
    [] c = "'" ->
         IF At(t, src + 1) = "\\"
         THEN IF At(t, src + 3) # NUL /\ ~isspace(At(t, src + 3))
              THEN put(4, IntArg("c", Ord(get_escaped_char(At(t, src + 2), TRUE))))
              ELSE put(3, IntArg("c", Ord("\\")))
         ELSE put(3, IntArg("c", Ord(At(t, src + 1))))
    [] c = "\"" -> string(ScanStrLoop(t, [src |-> src + 1, sc |-> sc, acc |-> <<>>]))
    [] c = "M" ->
         IF StartsWith(t, src, <<"M", "I", "D", "I">>)
            /\ (isspace(At(t, src + 4)) \/ At(t, src + 4) = "[")
         THEN midi(sscanf(t, src, Format("MIDI [ 0x%x 0x%x 0x%x 0x%x ]%n")))
         ELSE same(parse_identifier(t, src, sc, arg))
    [] c = "[" ->
         array(ScanArrayLoop(t, [src |-> SkipWs(t, src + 1), sc |-> sc, arg |-> arg + 1,
                                 nargs |-> nargs, num_read |-> 0, arrtype |-> " "], 0))
    [] c = "B" -> blob(sscanf(t, src, Format("BLOB [ %i %n")))
    [] is_range_multiplier(t, src) -> multiplier(sscanf(t, src, Format("%dx%n")))
    [] c = "_" \/ isalpha(c) -> same(parse_identifier(t, src, sc, arg))
    [] c # NUL /\ At(t, src + 1) # NUL /\ At(t, src + 2) # NUL /\ At(t, src + 3) # NUL
       /\ At(t, src + 4) = "-" -> same(ScanDate(t, src, sc, arg))
    [] OTHER -> same(ScanNumeric(t, src, sc, arg))

\* The range part of rtosc_scan_arg_val, after "..." was found: w is the switch's
\* result, rsrc the text behind the dots, r the right hand side scanned into a
\* local rtosc_arg_val_t.  The result is [rd, sc].
ScanRange(t, src, w, args_before, rsrc, r) ==
  LET infinite_range == At(t, rsrc) = "]"
      lhsarg == ReadArg(w.sc, w.arg)
      m3 == ReadArg(w.sc, w.arg - 3)
      llhsarg == IF args_before > 2 /\ m3.type = "-" /\ m3.x # 0
                 THEN rtosc_arg_val_range_arg(w.sc.args, w.arg - 3, m3.i - 1)
                 ELSE ReadArg(w.sc, w.arg - 1)
      llhsarg_is_useless ==
        args_before < 1 \/ lhsarg.type = "-" \/ llhsarg.type # lhsarg.type
      computed == ~(infinite_range /\ llhsarg_is_useless)
      write(s2, d, has_delta) ==
        IF has_delta
        THEN WriteArg(WriteArg(WriteArg(s2, w.arg, RangeArg(d.num, 1)),
                               w.arg + 1, d.delta),
                      w.arg + 2, lhsarg)
        ELSE WriteArg(WriteArg(s2, w.arg, RangeArg(0, 0)), w.arg + 1, lhsarg)
      store(s1, d) ==
        IF s1.ub THEN s1
        ELSE write(ScanAbort(s1, ~computed \/ infinite_range \/ d.num > 0), d,
                   computed /\ ~(infinite_range /\ d.num = -1))
      check(d) ==
        [rd |-> (IF infinite_range THEN rsrc ELSE rsrc + r.rd) - src,
         sc |-> store(ScanUb(w.sc, \/ w.arg > Len(w.sc.args)
                                   \/ ~infinite_range /\ (r.sc.ub \/ r.sc.fail)
                                   \/ computed /\ d.ub),
                      d)]
  IN  check(delta_from_arg_vals(llhsarg, lhsarg, ReadArg(r.sc, 1),
                                ~infinite_range, llhsarg_is_useless))

\* rtosc_scan_arg_val if it ended after the switch, without looking for "...".
ScanNoEllipsis(t, src, w, args_before, follow_ellipsis) == [rd |-> w.src - src, sc |-> w.sc]

\* What follows the switch in rtosc_scan_arg_val: the skipped white space and,
\* if an ellipsis follows and is allowed, the range.
ScanEllipsis(t, src, w, args_before, follow_ellipsis) ==
  IF \/ w.sc.fail
     \/ w.sc.ub
     \/ follow_ellipsis = 0
     \/ ~StartsWith(t, SkipWs(t, w.src), <<".", ".", ".">>)
  THEN [rd |-> w.src - src, sc |-> w.sc]
  ELSE ScanRange(t, src, w, args_before, SkipWs(t, SkipWs(t, w.src) + 3),
                 rtosc_scan_arg_val(t, SkipWs(t, SkipWs(t, w.src) + 3),
                                    NewScanState(0, TRUE), 1, 1, 0, 0))

\* The result is [rd, sc]: the bytes consumed and the scan state.
rtosc_scan_arg_val(t, src, sc0, arg0, nargs0, args_before, follow_ellipsis) ==
  ScanEllipsis(t, src, ScanSwitch(t, src, ScanAbort(sc0, nargs0 # 0), arg0, nargs0 - 1),
               args_before, follow_ellipsis)


\* while(*src == '%') skip_fmt(&src, fmt): the new src.
RECURSIVE SkipComments(_, _, _)
SkipComments(t, src, fmt) ==
  IF At(t, src) = "%" THEN SkipComments(t, src + skip_fmt(t, src, fmt), fmt) ELSE src

\* The white space and comment lines after a value: the new src.
RECURSIVE SkipSpaceAndComments(_, _)
SkipSpaceAndComments(t, src) ==
  LET again(p) == IF isspace(At(t, p)) THEN SkipSpaceAndComments(t, p) ELSE p
  IN  again(SkipComments(t, src + skip_fmt(t, src, Format(" %n")), Format("%*[^\n]%n")))

\* The loop of rtosc_scan_arg_vals: L is [src, sc, args, i].
RECURSIVE ScanValsLoop(_, _, _)
ScanValsLoop(t, n, L) ==
  LET next(r, length) ==
        [sc |-> r.sc, src |-> SkipSpaceAndComments(t, L.src + r.rd),
         args |-> L.args + length, i |-> L.i + length]
      scanned(r) == next(r, next_arg_offset(r.sc.args, L.args))
  IN  IF \/ L.i >= n
         \/ L.sc.fail
         \/ L.sc.ub
      THEN L
      ELSE ScanValsLoop(t, n, scanned(rtosc_scan_arg_val(t, L.src, L.sc, L.args, n - L.i,
                                                         L.i, 1)))

\* The result is [rd, sc].
rtosc_scan_arg_vals(t, src, n, bufsize) ==
  LET result(L) == [sc |-> L.sc, rd |-> L.src - src]
  IN  result(ScanValsLoop(t, n, [src |-> src, sc |-> NewScanState(bufsize, FALSE),
                                 args |-> 1, i |-> 0]))


(***************************************************************************)
(* The recognizer.  Its result is [src, skipped, type, ub, fail]: src the  *)
(* position after the value (0: NULL), type what *type holds afterwards    *)
(* (the caller's initial value type0 when the code never stores one).      *)
(***************************************************************************)
NoType == "uninit"

\* end_of_printed_string, from the character after the opening quote: [src, ub]
RECURSIVE EndOfStringLoop(_, _, _)
EndOfStringLoop(t, src, escaped) ==
  LET c == At(t, src)
      continue(n) == IF n = 0 THEN [src |-> 0, ub |-> TRUE] ELSE EndOfStringLoop(t, n, escaped)
  IN  IF c # NUL /\ (escaped \/ c # "\"")
      THEN IF escaped /\ get_escaped_char(c, FALSE) = NUL THEN [src |-> 0, ub |-> FALSE]
           ELSE EndOfStringLoop(t, src + 1, IF c = "\\" THEN ~escaped ELSE FALSE)
      ELSE IF c = "\"" /\ At(t, src + 1) = "\\"
      THEN continue(skip_fmt_null(t, src, Format("\"\\ \"%n")))
      ELSE IF c = NUL THEN [src |-> 0, ub |-> FALSE]
      ELSE [src |-> src + 1, ub |-> FALSE]

end_of_printed_string(t, src) == EndOfStringLoop(t, src + 1, FALSE)

\* The bytes of a blob in the recognizer: [src, blobsize]
RECURSIVE SkipBlobLoop(_, _, _)
SkipBlobLoop(t, src, blobsize) ==
  IF src # 0 /\ At(t, src) = "0"
  THEN SkipBlobLoop(t, skip_fmt_null(t, src, Format("0x%*x %n")), blobsize - 1)
  ELSE [src |-> src, blobsize |-> blobsize]



\* The date branch of the recognizer, after the date itself: the new src.  The
\* nested ifs try the formats in turn (k is the one tried at src): the first four
\* are optional, the fifth is skipped unchecked, the last two must match.
RECURSIVE SkipDateRest(_, _, _)
SkipDateRest(t, src, k) ==
  LET part(r) ==
        IF k <= 4 THEN IF r.rd = 0 THEN src ELSE SkipDateRest(t, src + r.rd, k + 1)
        ELSE IF k = 5 THEN SkipDateRest(t, src + r.rd, k + 1)
        ELSE IF k = 6 THEN IF r.rd = 0 THEN 0 ELSE SkipDateRest(t, src + r.rd, k + 1)
        ELSE IF r.rd # 0 /\ r.vals[1] > 0 /\ r.vals[1] <= 32 THEN src + r.rd ELSE 0
  IN  part(sscanf(t, src, Format(<<" %*2d:%*1d%*1d%n", ":%*1d%*1d%n", ".%*d%n",
                                   " ( ... + 0x%n", "%*x.%n", "%*xp%n", "-%d s )%n">>[k])))

\* What follows the number in the recognizer's numeric branch: for a float or
\* double, the lossless representation in parentheses.  n1 is what skip_numeric
\* found, after_num the text behind the number and the white space.
SkipLossless(t, src, n1, after_num) ==
  LET lossless(p2, n2) ==
        IF n2.rd = 0 THEN [src |-> 0, type |-> n1.type]
        ELSE [src |-> skip_fmt_null(t, p2 + n2.rd, Format(" )%n")), type |-> n1.type]
  IN  IF At(t, after_num) # "(" THEN [src |-> src + n1.rd, type |-> n1.type]
      ELSE IF n1.type \notin {"f", "d"} THEN [src |-> 0, type |-> n1.type]
      ELSE lossless(SkipWs(t, after_num + 1), skip_numeric(t, SkipWs(t, after_num + 1)))

\* The numeric branch of the recognizer: [src, type]
SkipNumeric(t, src, type0) ==
  LET first(n1) ==
        IF n1.rd = 0 THEN [src |-> 0, type |-> IF n1.type = "" THEN type0 ELSE n1.type]
        ELSE SkipLossless(t, src, n1, SkipWs(t, src + n1.rd))
  IN  first(skip_numeric(t, src))

\* The end of the recognizer's default case: a date if the date format
\* matched (n bytes), a number otherwise: [src, type]
SkipDateOrNumber(t, src, type0, n) ==
  IF n # 0 THEN [src |-> SkipDateRest(t, src + n, 1), type |-> "t"]
  ELSE SkipNumeric(t, src, type0)

\* strchr(s, 'x') + 1 of a range multiplier
AfterMultiplier(t, s) == DigitsEnd(t, s, 10, NoLimit) + 1

RECURSIVE rtosc_skip_next_printed_arg(_, _, _, _, _, _)
RECURSIVE SkipArrayLoop(_, _)

\* The loop of case '[': L is [src, recent_src, arraytype, skipped, ub, fail].
SkipArrayLoop(t, L) ==
  LET element(r) ==
        [fail |-> r.fail,
         src |-> IF L.arraytype # NUL /\ L.arraytype # r.type /\ r.type # "-" THEN 0
                 ELSE IF r.src # 0 THEN SkipWs(t, r.src) ELSE 0,
         recent_src |-> L.src,
         arraytype |-> IF L.arraytype = NUL THEN r.type ELSE L.arraytype,
         skipped |-> L.skipped + r.skipped,
         \* an element that consumes nothing is skipped for ever
         ub |-> r.ub \/ (r.src # 0 /\ r.src <= L.src)]
  IN  IF \/ L.src = 0
         \/ At(t, L.src) = NUL
         \/ At(t, L.src) = "]"
         \/ L.ub
         \/ L.fail
      THEN L
      ELSE SkipArrayLoop(t, element(rtosc_skip_next_printed_arg(t, L.src, Chr(20),
                                                                L.recent_src, 1, TRUE)))

\* The switch of the recognizer: [src, type, skipped, drt, ub, fail]; drt is
\* deltaless_range_type.
SkipSwitch(t, src, type0, inside_bundle) ==
  LET c == At(t, src)
      res(p, type) == [src |-> p, type |-> type, skipped |-> 1, drt |-> NUL,
                       ub |-> FALSE, fail |-> FALSE]
      word(p, type) == IF p # 0 THEN res(p, type) ELSE res(skip_identifier(t, src), "S")
      words(p1, type1, p2, type2) == IF p1 # 0 THEN res(p1, type1) ELSE word(p2, type2)
      string(e) ==
        IF e.src # 0 /\ At(t, e.src) = "S" THEN [res(e.src + 1, "S") EXCEPT !.ub = e.ub]
        ELSE [res(e.src, "s") EXCEPT !.ub = e.ub]
      array(L) ==
        [fail |-> L.fail, ub |-> L.ub,
         src |-> IF L.src # 0 /\ At(t, L.src) # NUL THEN L.src + 1 ELSE 0,
         type |-> "a", skipped |-> L.skipped, drt |-> NUL]
      multiplied(r) ==
        [src |-> r.src, type |-> IF r.src # 0 THEN "-" ELSE type0,
         skipped |-> IF r.src # 0 THEN 1 + r.skipped ELSE 1,
         drt |-> r.type, ub |-> r.ub, fail |-> r.fail]
      numeric(n) == [src |-> n.src, type |-> n.type, skipped |-> 1, drt |-> NUL,
                     ub |-> FALSE, fail |-> FALSE]
      bytes(L) ==
        IF L.blobsize # 0 \/ L.src = 0 THEN res(0, type0)
        ELSE IF At(t, L.src) = "]" THEN res(L.src + 1, type0)
        ELSE res(0, type0)
      size(h, sz) == bytes(SkipBlobLoop(t, IF sz.rd # 0 THEN h + sz.rd ELSE 0,
                                        IF Len(sz.vals) > 0 THEN sz.vals[1] ELSE 0))
      \* with src = NULL case 'B' falls into the default case, which reads *src
      blob(h) == IF h = 0 THEN [res(0, "b") EXCEPT !.ub = TRUE]
                 ELSE size(h, sscanf(t, h, Format("%i %n")))
  IN
  CASE c = "t" -> word(skip_word(<<"t", "r", "u", "e">>, t, src), "T")
    [] c = "f" -> word(skip_word(<<"f", "a", "l", "s", "e">>, t, src), "F")
    [] c = "n" -> words(skip_word(<<"n", "i", "l">>, t, src), "N",
                        skip_word(<<"n", "o", "w">>, t, src), "t")
    [] c = "i" -> words(skip_word(<<"i", "n", "f">>, t, src), "I",
                        skip_word(<<"i", "m", "m", "e", "d", "i", "a", "t", "e", "l", "y">>,
                                  t, src), "t")
    [] c = "#" -> IF \A k \in 1..8 : isxdigit(At(t, src + k)) THEN res(src + 9, "r")
                  ELSE res(0, "r")
    [] c = "'" ->
         IF Len(t) - src + 1 < 3 THEN res(0, type0)
         ELSE IF At(t, src + 1) = "\\"
                 /\ ~(At(t, src + 2) = "'" /\ (At(t, src + 3) = NUL \/ isspace(At(t, src + 3))))
         THEN IF get_escaped_char(At(t, src + 2), TRUE) = NUL \/ At(t, src + 3) # "'"
              THEN res(0, "c") ELSE res(src + 4, "c")
         ELSE IF At(t, src + 2) # "'" THEN res(0, "c") ELSE res(src + 3, "c")
    [] c = "\"" -> string(end_of_printed_string(t, src))
    [] c = "M" ->
         IF StartsWith(t, src, <<"M", "I", "D", "I">>)
            /\ (isspace(At(t, src + 4)) \/ At(t, src + 4) = "[")
         THEN res(skip_fmt_null(t, src, Format("MIDI [ 0x%*x 0x%*x 0x%*x 0x%*x ]%n")),
                  "m")
         ELSE res(skip_identifier(t, src), "S")
    [] c = "[" -> array(SkipArrayLoop(t, [src |-> SkipWs(t, src + 1), recent_src |-> 0,
                                           arraytype |-> NUL, skipped |-> 1, ub |-> FALSE,
                                           fail |-> FALSE]))
    [] c = "B" -> blob(skip_fmt_null(t, src, Format("BLOB [ %n")))
    [] is_range_multiplier(t, src) ->
         multiplied(rtosc_skip_next_printed_arg(t, AfterMultiplier(t, src), NUL, 0, 0,
                                                inside_bundle))
    [] c = "_" \/ isalpha(c) -> res(IdentEnd(t, src), "S")
    [] OTHER -> numeric(SkipDateOrNumber(t, src, type0,
                                         skip_fmt(t, src, Format("%*4d-%*1d%*1d-%*1d%*1d%n"))))

\* strstr(s, "..."): the first "..." at or after p (the text's end when none)
RECURSIVE FindEllipsis(_, _)
FindEllipsis(t, p) ==
  IF p > Len(t) \/ StartsWith(t, p, <<".", ".", ".">>) THEN p ELSE FindEllipsis(t, p + 1)

\* rtosc_scan_arg_val(src, &arg, 1, NULL, &zero, 0, 0): [arg, bad]
ScanOne(t, src) ==
  LET one(r) == [ub |-> r.sc.ub, fail |-> r.sc.fail, arg |-> ReadArg(r.sc, 1)]
  IN  one(rtosc_scan_arg_val(t, src, NewScanState(0, TRUE), 1, 1, 0, 0))

\* The range part of rtosc_skip_next_printed_arg.  g holds the locals of the
\* function: [skipped, lhssrc, lhstype, ellipsis, rhssrc, infinite_range,
\* llhssrc, inside_bundle].  Every return NULL of the range part:
\* A range part that returns the position before the ellipsis where the code
\* returns NULL.
SkipRangeBack(g, ub, fail) ==
  [src |-> g.ellipsis, skipped |-> g.skipped, type |-> g.lhstype, ub |-> ub, fail |-> fail]

SkipRangeStop(g, ub, fail) ==
  [src |-> 0, skipped |-> g.skipped, type |-> "-", ub |-> ub, fail |-> fail]

\* delta_from_arg_vals and the count of the values the range will take
SkipRangeDelta(g, endsrc, rhsarg, lhsarg, llhsarg, llhsarg_is_useless) ==
  LET counted(computed, d) ==
        IF computed /\ d.ub THEN SkipRangeStop(g, TRUE, FALSE)
        ELSE IF computed /\ d.num = -1 /\ ~g.infinite_range
        THEN SkipRangeStop(g, FALSE, FALSE)
        ELSE [src |-> endsrc, type |-> "-", ub |-> FALSE, fail |-> FALSE,
              skipped |-> g.skipped
                          - (IF computed /\ g.infinite_range /\ d.num = -1 THEN 1 ELSE 0)
                          + (IF computed /\ ~(g.infinite_range /\ d.num = -1) THEN 2 ELSE 1)]
  IN  counted(~(g.infinite_range /\ llhsarg_is_useless),
              delta_from_arg_vals(llhsarg, lhsarg, rhsarg, ~g.infinite_range,
                                  llhsarg_is_useless))

\* The value before the left hand side, at p: lr is what the recognizer said
\* about it; it is scanned only if its type is the left hand side's.
SkipRangeLlhs(t, g, endsrc, rhsarg, lhsarg, p, lr) ==
  LET llhs(l) ==
        IF l.ub \/ l.fail THEN SkipRangeStop(g, l.ub, l.fail)
        ELSE SkipRangeDelta(g, endsrc, rhsarg, lhsarg, l.arg, FALSE)
  IN  IF lr.ub \/ lr.fail \/ lr.type = NoType
      THEN SkipRangeStop(g, lr.ub \/ lr.type = NoType, lr.fail)
      ELSE IF lr.type # g.lhstype
      THEN SkipRangeDelta(g, endsrc, rhsarg, lhsarg, Uninit, TRUE)
      ELSE llhs(ScanOne(t, p))

\* Where the value before the left hand side starts: llhssrc itself, the value
\* of a range multiplier, or the right hand side of an earlier range.
LlhsSrc(t, llhssrc, ellipsis) ==
  IF FindEllipsis(t, llhssrc) < ellipsis THEN SkipWs(t, FindEllipsis(t, llhssrc) + 3)
  ELSE IF is_range_multiplier(t, llhssrc) THEN AfterMultiplier(t, llhssrc)
  ELSE llhssrc

\* The left hand side scanned (l)
SkipRangeLhs(t, g, endsrc, rhsarg, l) ==
  IF l.ub \/ l.fail THEN SkipRangeStop(g, l.ub, l.fail)
  ELSE IF g.llhssrc = 0 THEN SkipRangeDelta(g, endsrc, rhsarg, l.arg, Uninit, TRUE)
  ELSE SkipRangeLlhs(t, g, endsrc, rhsarg, l.arg, LlhsSrc(t, g.llhssrc, g.ellipsis),
                     rtosc_skip_next_printed_arg(t, LlhsSrc(t, g.llhssrc, g.ellipsis),
                                                 NoType, 0, 0, g.inside_bundle))

\* SkipRangeRhs without the comparison of lhstype and rhstype.
SkipRangeRhsAnyType(t, g, r, s) ==
  IF r.src = 0 THEN SkipRangeStop(g, r.ub, r.fail)
  ELSE IF r.ub \/ r.fail \/ s.ub \/ s.fail
  THEN SkipRangeStop(g, r.ub \/ s.ub, r.fail \/ s.fail)
  ELSE SkipRangeLhs(t, g, r.src, s.arg, ScanOne(t, g.lhssrc))

\* The right hand side recognized (r) and scanned (s)
SkipRangeRhs(t, g, r, s) ==
  IF r.src = 0 THEN SkipRangeStop(g, r.ub, r.fail)
  ELSE IF r.ub \/ r.fail \/ s.ub \/ s.fail
  THEN SkipRangeStop(g, r.ub \/ s.ub, r.fail \/ s.fail)
  ELSE IF g.lhstype # r.type THEN SkipRangeStop(g, FALSE, FALSE)
  ELSE SkipRangeLhs(t, g, r.src, s.arg, ScanOne(t, g.lhssrc))

\* An infinite range has no right hand side: the code then skips the steps
\* that recognize and scan it, as if both had succeeded at rhssrc.
SkipRange(t, g) ==
  LET none == [src |-> g.rhssrc, type |-> g.lhstype, arg |-> Uninit,
               ub |-> FALSE, fail |-> FALSE]
  IN  IF g.lhstype = NoType THEN SkipRangeStop(g, TRUE, FALSE)
      ELSE IF g.lhstype \notin allowed_range_types THEN SkipRangeStop(g, FALSE, FALSE)
      ELSE IF g.infinite_range /\ ~g.inside_bundle THEN SkipRangeStop(g, FALSE, TRUE)
      ELSE SkipRangeRhs(t, g,
                        IF g.infinite_range THEN none
                        ELSE rtosc_skip_next_printed_arg(t, g.rhssrc, "x", 0, 0,
                                                         g.inside_bundle),
                        IF g.infinite_range THEN none ELSE ScanOne(t, g.rhssrc))

\* What follows the switch in rtosc_skip_next_printed_arg: the skipped white
\* space and, if an ellipsis follows and is allowed, the range.  w is the
\* switch's result.
SkipEllipsis(t, src, w, llhssrc, follow_ellipsis, inside_bundle) ==
  IF \/ follow_ellipsis = 0
     \/ w.src = 0
     \/ w.ub
     \/ w.fail
     \/ ~StartsWith(t, SkipWs(t, w.src), <<".", ".", ".">>)
  THEN [src |-> w.src, skipped |-> w.skipped, type |-> w.type, ub |-> w.ub, fail |-> w.fail]
  ELSE SkipRange(t, [skipped |-> w.skipped,
                     lhssrc |-> IF is_range_multiplier(t, src) THEN AfterMultiplier(t, src)
                                ELSE src,
                     lhstype |-> IF w.drt # NUL THEN w.drt ELSE w.type,
                     ellipsis |-> SkipWs(t, w.src),
                     rhssrc |-> SkipWs(t, SkipWs(t, w.src) + 3),
                     infinite_range |-> At(t, SkipWs(t, SkipWs(t, w.src) + 3)) = "]",
                     llhssrc |-> llhssrc, inside_bundle |-> inside_bundle])

rtosc_skip_next_printed_arg(t, src, type0, llhssrc, follow_ellipsis, inside_bundle) ==
  SkipEllipsis(t, src, SkipSwitch(t, src, type0, inside_bundle), llhssrc, follow_ellipsis,
               inside_bundle)

\* The loop of rtosc_count_printed_arg_vals: L is [src, recent_src, num, ub, fail].
RECURSIVE CountLoop(_, _)
CountLoop(t, L) ==
  LET next(r) ==
        [ub |-> r.ub, fail |-> r.fail,
         src |-> IF r.src = 0 THEN 0 ELSE SkipComments(t, SkipWs(t, r.src), Format("%*[^\n] %n")),
         recent_src |-> L.src, num |-> L.num + r.skipped]
  IN  IF \/ L.src = 0
         \/ At(t, L.src) = NUL
         \/ At(t, L.src) = "/"
         \/ L.ub
         \/ L.fail
      THEN L
      ELSE CountLoop(t, next(rtosc_skip_next_printed_arg(t, L.src, NoType, L.recent_src, 1,
                                                         FALSE)))

\* The result is [num, ub, fail]: num the value the function returns.
rtosc_count_printed_arg_vals(t, src) ==
  LET result(L) ==
        [ub |-> L.ub, fail |-> L.fail, num |-> IF L.src # 0 THEN L.num ELSE 0 - L.num]
  IN  result(CountLoop(t, [src |-> SkipComments(t, SkipWs(t, src), Format("%*[^\n] %n")),
                           recent_src |-> 0, num |-> 0, ub |-> FALSE, fail |-> FALSE]))

\* INT_MIN of <limits.h> with a 32 bit int.
IntMin == 0 - 2147483647 - 1

\* The end of the address: the first NUL or space from msg on.
RECURSIVE AddressEnd(_, _)
AddressEnd(t, msg) ==
  IF At(t, msg) = NUL \/ isspace(At(t, msg)) THEN msg ELSE AddressEnd(t, msg + 1)

\* The count of a message with every text without an address taken alike.
count_of_msg_no_sentinel(t, msg0) ==
  LET msg == SkipComments(t, SkipWs(t, msg0), Format("%*[^\n] %n"))
  IN  IF At(t, msg) = "/"
      THEN rtosc_count_printed_arg_vals(t, AddressEnd(t, msg))
      ELSE [num |-> 0 - 1, ub |-> FALSE, fail |-> FALSE]

rtosc_count_printed_arg_vals_of_msg(t, msg0) ==
  LET msg == SkipComments(t, SkipWs(t, msg0), Format("%*[^\n] %n"))
  IN  IF At(t, msg) = "/"
      THEN rtosc_count_printed_arg_vals(t, AddressEnd(t, msg))
      ELSE IF At(t, msg) = NUL
           THEN [num |-> IntMin, ub |-> FALSE, fail |-> FALSE]
           ELSE [num |-> 0 - 1, ub |-> FALSE, fail |-> FALSE]

(***************************************************************************)
(* The binary message writer sosc and the length detector msg_len, as the  *)
(* test simple-messages.c calls them and checks their results.             *)
(***************************************************************************)
\* n rounded up to a multiple of 4.
RoundUp4(n) == ((n + 3) \div 4) * 4

\* A text with its terminator, padded with NULs to a multiple of 4 bytes.
Padded(cs) == cs \o Nuls(RoundUp4(Len(cs) + 1) - Len(cs))

\* The bytes of one argument: 'i' is 4 bytes, the highest first, 's' is the
\* padded string; T, F, I and N have no bytes.
ArgBytes(arg) ==
  CASE arg.type = "i" -> <<Chr(arg.i \div 16777216), Chr((arg.i \div 65536) % 256),
                           Chr((arg.i \div 256) % 256), Chr(arg.i % 256)>>
    [] arg.type = "s" -> Padded(arg.s)
    [] OTHER -> <<>>

RECURSIVE MessageBytes(_, _, _)
\* The message: the padded address, the padded type tags after a comma, and
\* the bytes of the arguments from the kth on.
MessageBytes(address, args, k) ==
  IF k = 0
  THEN Padded(address) \o Padded(<<",">> \o [j \in 1..Len(args) |-> args[j].type])
       \o MessageBytes(address, args, 1)
  ELSE IF k > Len(args) THEN <<>>
  ELSE ArgBytes(args[k]) \o MessageBytes(address, args, k + 1)

\* The writer with a capacity check that is off by one.
sosc_off_by_one(mem, len, address, args) ==
  LET msg == MessageBytes(address, args, 0)
  IN  IF Len(msg) >= len
      THEN [mem |-> [k \in 1..Len(mem) |-> IF k <= len THEN NUL ELSE mem[k]], size |-> 0]
      ELSE [mem |-> [k \in 1..Len(mem) |-> IF k <= Len(msg) THEN msg[k] ELSE mem[k]],
            size |-> Len(msg)]

\* sosc(buffer, len, address, types, ...): [mem, size], size 0 and the
\* buffer cleared when the message does not fit len bytes.
sosc(mem, len, address, args) ==
  LET msg == MessageBytes(address, args, 0)
  IN  IF Len(msg) > len
      THEN [mem |-> [k \in 1..Len(mem) |-> IF k <= len THEN NUL ELSE mem[k]], size |-> 0]
      ELSE [mem |-> [k \in 1..Len(mem) |-> IF k <= Len(msg) THEN msg[k] ELSE mem[k]],
            size |-> Len(msg)]

\* msg_len(buffer): the offset reached after the address, the type tags and
\* the arguments; the end of the type tags is rounded up to a multiple of 4.
msg_len(mem) ==
  LET NulFrom(o) == CHOOSE q \in o..Len(mem) :
                      At(mem, q + 1) = NUL /\ \A j \in o..(q - 1) : At(mem, j + 1) # NUL
      Comma == CHOOSE q \in NulFrom(0)..Len(mem) :
                 At(mem, q + 1) # NUL /\ \A j \in NulFrom(0)..(q - 1) : At(mem, j + 1) = NUL
      TagsEnd == NulFrom(Comma)
      ArgsEnd[k \in 0..(TagsEnd - Comma - 1)] ==
        IF k = 0 THEN RoundUp4(TagsEnd)
        ELSE CASE At(mem, Comma + k + 1) = "i" -> ArgsEnd[k - 1] + 4
               [] At(mem, Comma + k + 1) = "s" -> RoundUp4(NulFrom(ArgsEnd[k - 1]) + 1)
               [] OTHER -> ArgsEnd[k - 1]
  IN  ArgsEnd[TagsEnd - Comma - 1]

(***************************************************************************)
(* The program as a state machine: a caller that holds arg vals prints     *)
(* them (one value, or the whole list), and a caller that holds a text     *)
(* counts its values and scans it with as many slots, or scans one value.  *)
(***************************************************************************)
VARIABLES pc, args, opt, text, wrt, pst, cnt, slots, rd, sst, dlt, cap, address, skp

vars == <<pc, args, opt, text, wrt, pst, cnt, slots, rd, sst, dlt, cap, address, skp>>

\* The capacity of the caller's text buffer and of its string buffer.
BufferSize == 96
StringBufferSize == 64
\* The largest term count of a range among the inputs.
MaxTerms == 3

C1Args == <<Plain("T"), IntArg("i", 23), StrArg("s", <<"t", "h", "i", "s", " ", "s", "t", "r", "i", "n", "g">>)>>

IntValues == {-3, 0, 1, 15, 23}
CharValues == {"a", "Z", "7", " ", "\"", "'", "\\", "\n", "\t", "\r", "\f", BEL, BS, VT}

\* The single values whose tag is neither string nor symbol.
Scalars ==
  {Plain("T"), Plain("F"), Plain("N"), Plain("I"), IntArg("t", 1)}
  \cup {IntArg("i", n) : n \in IntValues} \cup {IntArg("h", n) : n \in IntValues}
  \cup {IntArg("c", Ord(c)) : c \in CharValues}
  \cup {BytesArg("r", <<1, 2, 3, 255>>), BytesArg("r", <<0, 0, 0, 0>>)}
  \cup {BytesArg("m", <<1, 2, 3, 4>>), BytesArg("m", <<144, 60, 127, 0>>)}
  \cup {BlobArg(<<>>), BlobArg(<<1, 255>>), BlobArg(<<0, 16, 32, 48>>)}

SymbolTexts ==
  {<<"a", "b", "c">>,
   <<"x", "1">>,
   <<"_", "a">>,
   <<"t", "r", "u", "e">>,
   <<"f", "a", "l", "s", "e">>,
   <<"n", "i", "l">>,
   <<"i", "n", "f">>,
   <<"n", "o", "w">>,
   <<"i", "m", "m", "e", "d", "i", "a", "t", "e", "l", "y">>,
   <<"B", "x">>,
   <<"M", "1">>,
   <<"1">>,
   <<"a", " ", "b">>,
   <<>>}

StringTexts ==
  {<<>>,
   <<"a", "b", "c", " ", "d", "e", "f">>,
   <<"a", "b", "\n", "c", "\"", "d", "\\", "e">>,
   <<"x", "x", "x", "x", "x", "x", "x", "\n">>}

\* A range with a delta: num terms from start on.
DeltaRange(num, delta, start) == <<RangeArg(num, 1), delta, start>>
\* A range without delta: num copies of start.
CopyRange(num, start) == <<RangeArg(num, 0), start>>

Ranges ==
  {DeltaRange(k, IntArg("i", d), IntArg("i", s)) :
     k \in 0..MaxTerms, d \in {-1, 1, 2}, s \in {1, 15}}
  \cup {DeltaRange(k, IntArg("c", 1), IntArg("c", Ord("a"))) : k \in 1..MaxTerms}
  \cup {CopyRange(k, v) : k \in 0..MaxTerms,
                          v \in {IntArg("i", 7), IntArg("i", 15), IntArg("c", Ord("a"))}}

ArgLists ==
  {<<v>> : v \in Scalars}
  \cup {<<StrArg("S", s)>> : s \in SymbolTexts}
  \cup {<<StrArg("s", s)>> : s \in StringTexts}
  \cup Ranges
  \cup {<<IntArg("i", 1), IntArg("i", 3), IntArg("i", 5)>>,
        <<ArrayArg("i", 2), IntArg("i", 1), IntArg("i", 2)>>}

\* Value lists that do not fit a narrow line, and the empty list.
LongLists ==
  {<<>>,
   <<IntArg("i", 1234), IntArg("i", 1234)>>,
   <<IntArg("i", 1234), IntArg("i", 1234), IntArg("i", 1)>>,
   <<ArrayArg("i", 2), IntArg("i", 1234), IntArg("i", 1234)>>,
   <<IntArg("i", 1), ArrayArg("i", 2), IntArg("i", 1234), IntArg("i", 1234)>>,
   <<IntArg("i", 1234), ArrayArg("i", 2), IntArg("i", 1234), IntArg("i", 1)>>,
   DeltaRange(2, IntArg("i", 1), IntArg("i", 1234))}

\* What the caller's buffer holds before the call: the printer is handed
\* memory that was never written (any byte, here '/'), or memory full of NULs.
Fills == {"/", NUL}

NarrowLine == 8

Options ==
  {default_print_options,
   [default_print_options EXCEPT !.compress_ranges = FALSE],
   [default_print_options EXCEPT !.compress_ranges = FALSE, !.sep = <<",", " ">>],
   [default_print_options EXCEPT !.linelength = NarrowLine],
   [default_print_options EXCEPT !.linelength = NarrowLine, !.compress_ranges = FALSE]}

\* A narrow line with a separator of two characters.
NarrowComma == [default_print_options EXCEPT !.linelength = NarrowLine, !.sep = <<",", " ">>]

\* Texts that a caller wrote by hand.
Texts ==
  {<<"[", "2", " ", "2", " ", ".", ".", ".", "]">>,
   <<"1", " ", "3", " ", ".", ".", ".", " ", "9">>,
   <<"3", "x", "7">>,
   <<"[", "1", " ", "2", " ", ".", ".", ".", "]">>,
   <<"[", "[", "1", "]", "]">>,
   <<"1", " ", ".", ".", ".", " ", "5">>,
   <<"[", "1", " ", "2", " ", "3", "]">>,
   <<"2", "x", "[", "1", " ", "2", "]">>,
   <<"1", " ", "2", " ", "4", " ", ".", ".", ".", " ", "8">>,
   <<"'", "a", "'", " ", ".", ".", ".", " ", "'", "c", "'">>,
   <<"[", "1", " ", "3", " ", ".", ".", ".", " ", "7", " ", "0", "]">>,
   <<"[", "1", " ", ".", ".", ".", " ", "3", " ", "4", "]">>,
   <<"[", "1", " ", "'", "a", "'", " ", ".", ".", ".", " ", "'", "c", "'", "]">>,
   <<"[", "1", " ", "'", "a", "'", "]">>,
   <<"B", "a", "r">>,
   <<"M", "o", "d", "e">>,
   <<"1", " ", ".", ".", ".", " ", "3", " ", "5", " ", ".", ".", ".", " ", "9">>,
   <<"[", "1", " ", ".", ".", ".", " ", "3", " ", "5", " ", ".", ".", ".", " ", "9", "]">>}

\* Texts with an ellipsis between the values 1, 3, 'a' and nil: ll l ... r,
\* l ... r and l ... without a right hand side.
Tokens == {<<"1">>, <<"3">>, <<"'", "a", "'">>, <<"n", "i", "l">>}
Dots == <<" ", ".", ".", ".">>
EllipsisText(ll, l, r) == ll \o <<" ">> \o l \o Dots \o <<" ">> \o r
EllipsisTexts ==
  {EllipsisText(ll, l, r) : ll \in Tokens, l \in Tokens, r \in Tokens}
  \cup {l \o Dots \o <<" ">> \o r : l \in Tokens, r \in Tokens}
  \cup {l \o Dots : l \in Tokens}

\* Message texts: an address and values, an address alone, values alone,
\* nothing at all, and values that do not parse.
MsgTexts ==
  {<<"/", "a", " ", "1", " ", "3">>,
   <<"/", "a">>,
   <<"/", "a", " ">>,
   <<>>,
   <<" ">>,
   <<"%", " ", "c", "\n">>,
   <<"%", " ", "c", "\n", "/", "a", " ", "1">>,
   <<"1", " ", "3">>,
   <<"/", "a", " ", "[", "1", " ", "2", "]", " ", "'", "a", "'">>,
   <<"/", "a", " ", "1", " ", ".", ".", ".">>,
   <<"/", "a", " ", "1", " ", "1", " ", ".", ".", ".", " ", "3">>,
   <<"/", "a", " ", "1", " ", "\"", "b">>,
   <<"/", "a", " ", "1", " ", "3", " ", ".", ".", ".", " ", "9">>}

\* Nothing recognized: what rtosc_skip_next_printed_arg returns and reports.
NoSkip == [src |-> 0, type |-> NoType, skipped |-> 0, ub |-> FALSE, fail |-> FALSE]
NoCount == [num |-> 0, ub |-> FALSE, fail |-> FALSE]
NoStatus == [fail |-> FALSE, ub |-> FALSE]
\* No delta inferred: the operands and the result of delta_from_arg_vals.
NoDelta == [llhs |-> IntArg("i", 0), lhs |-> IntArg("i", 0), rhs |-> IntArg("i", 0),
            has_rhs |-> FALSE, must_be_unity |-> FALSE,
            num |-> 0, delta |-> IntArg("i", 0)]

Init ==
  /\ \/ pc = "args" /\ args \in ArgLists \cup LongLists /\ opt \in Options /\ text = <<>>
     \/ pc = "args" /\ args = C1Args /\ opt = default_print_options /\ text = <<>>
     \/ pc = "args" /\ args \in LongLists /\ opt = NarrowComma /\ text = <<>>
     \/ pc = "text" /\ args = <<>> /\ opt = default_print_options
        /\ text \in Texts \cup EllipsisTexts
     \/ pc = "msg" /\ args = <<>> /\ opt = default_print_options /\ text \in MsgTexts
  /\ wrt = 0
  /\ pst = [fail |-> FALSE, oob |-> FALSE, cols |-> 0]
  /\ cnt = NoCount
  /\ slots = <<>>
  /\ rd = 0
  /\ sst = NoStatus
  /\ dlt = NoDelta
  /\ cap = BufferSize
  /\ address = <<>>
  /\ skp = NoSkip

\* rtosc_print_arg_vals(args, n, buffer, bs, opt, 0)
PrintValues ==
  /\ pc = "args"
  /\ \E fill \in Fills :
       LET printed(r) == /\ text' = CStr(r.st.mem, 1)
                         /\ wrt' = r.wrt
                         /\ pst' = [fail |-> r.st.fail, oob |-> r.st.oob, cols |-> r.cols]
       IN  printed(rtosc_print_arg_vals(args, Len(args), NewPrintState(cap, fill), 1,
                                        cap, opt, 0))
  /\ pc' = "text"
  /\ UNCHANGED <<args, opt, cnt, slots, rd, sst, dlt, cap, address, skp>>

\* rtosc_print_arg_val(arg, buffer, bs, opt, &cols_used) with cols_used = 0
PrintValue ==
  /\ pc = "args"
  /\ Len(args) > 0
  /\ next_arg_offset(args, 1) = Len(args)
  /\ \E fill \in Fills :
       LET printed(r) == /\ text' = CStr(r.st.mem, 1)
                         /\ wrt' = r.wrt
                         /\ pst' = [fail |-> r.st.fail, oob |-> r.st.oob, cols |-> r.cols]
       IN  printed(rtosc_print_arg_val(args, 1, NewPrintState(cap, fill), 1,
                                       cap, opt, 0))
  /\ pc' = "valtext"
  /\ UNCHANGED <<args, opt, cnt, slots, rd, sst, dlt, cap, address, skp>>

\* rtosc_count_printed_arg_vals(text)
CountValues ==
  /\ pc = "text"
  /\ ~pst.fail
  /\ cnt' = rtosc_count_printed_arg_vals(text, 1)
  /\ pc' = "counted"
  /\ UNCHANGED <<args, opt, text, wrt, pst, slots, rd, sst, dlt, cap, address, skp>>

\* rtosc_scan_arg_vals(text, slots, n, buffer, bufsize) with n as counted
ScanValues ==
  /\ pc = "counted"
  /\ cnt.num > 0 /\ ~cnt.ub /\ ~cnt.fail
  /\ LET scanned(r) == /\ slots' = r.sc.args
                       /\ rd' = r.rd
                       /\ sst' = [fail |-> r.sc.fail, ub |-> r.sc.ub]
     IN  scanned(rtosc_scan_arg_vals(text, 1, cnt.num, StringBufferSize))
  /\ pc' = "scanned"
  /\ UNCHANGED <<args, opt, text, wrt, pst, cnt, dlt, cap, address, skp>>

\* rtosc_scan_arg_val(text, slots, nargs, buffer, &bufsize, 0, 1) of a printed value
ScanValue ==
  /\ pc = "valtext"
  /\ ~pst.fail
  /\ LET scanned(r) == /\ slots' = r.sc.args
                       /\ rd' = r.rd
                       /\ sst' = [fail |-> r.sc.fail, ub |-> r.sc.ub]
     IN  scanned(rtosc_scan_arg_val(text, 1, NewScanState(StringBufferSize, FALSE), 1,
                                    Len(args), 0, 1))
  /\ pc' = "valscanned"
  /\ UNCHANGED <<args, opt, text, wrt, pst, cnt, dlt, cap, address, skp>>

\* rtosc_count_printed_arg_vals_of_msg(text)
CountMessage ==
  /\ pc = "msg"
  /\ cnt' = rtosc_count_printed_arg_vals_of_msg(text, 1)
  /\ pc' = "msgcounted"
  /\ UNCHANGED <<args, opt, text, wrt, pst, slots, rd, sst, dlt, cap, address, skp>>

\* rtosc_skip_next_printed_arg(text, &skipped, &type, NULL, 1, 0) on the text
\* of a value that has been scanned
RecognizeValue ==
  /\ pc = "valscanned"
  /\ skp' = rtosc_skip_next_printed_arg(text, 1, NoType, 0, 1, FALSE)
  /\ pc' = "valrecognized"
  /\ UNCHANGED <<args, opt, text, wrt, pst, cnt, slots, rd, sst, dlt, cap, address>>

Next ==
  \/ PrintValues \/ PrintValue \/ CountValues \/ ScanValues \/ ScanValue \/ CountMessage
  \/ RecognizeValue

Spec == Init /\ [][Next]_vars

(***************************************************************************)
(* delta_from_arg_vals on its own: the operands are drawn from the whole   *)
(* numbers 0..MaxOperand of type 'i' and from the fractions n/FloatScale   *)
(* of type 'f', in the three ways the recognizer and the scanner call it:  *)
(* with llhs and rhs, with llhs and no rhs (infinite range), and with no   *)
(* usable llhs (must_be_unity) and rhs.                                    *)
(***************************************************************************)
MaxOperand == 11
MaxFraction == 7
FloatScale == 2
IntOperands == {IntArg("i", n) : n \in 0..MaxOperand}
FloatOperands == {FloatArg("f", n, FloatScale) : n \in 0..MaxFraction}

DeltaInit ==
  /\ pc = "operands"
  /\ \E Operands \in {IntOperands, FloatOperands} :
       \E ll \in Operands, l \in Operands, r \in Operands :
         \/ dlt = [NoDelta EXCEPT !.llhs = ll, !.lhs = l, !.rhs = r, !.has_rhs = TRUE]
         \/ dlt = [NoDelta EXCEPT !.llhs = ll, !.lhs = l, !.rhs = l] /\ r = l
         \/ dlt = [NoDelta EXCEPT !.llhs = l, !.lhs = l, !.rhs = r, !.has_rhs = TRUE,
                                  !.must_be_unity = TRUE] /\ ll = l
  /\ args = <<>> /\ opt = default_print_options /\ text = <<>>
  /\ wrt = 0
  /\ pst = [fail |-> FALSE, oob |-> FALSE, cols |-> 0]
  /\ cnt = NoCount
  /\ slots = <<>>
  /\ rd = 0
  /\ sst = NoStatus
  /\ cap = BufferSize
  /\ address = <<>>
  /\ skp = NoSkip

\* delta_from_arg_vals(&llhs, &lhs, has_rhs ? &rhs : NULL, &delta, must_be_unity)
InferDelta ==
  /\ pc = "operands"
  /\ LET inferred(r) == dlt' = [dlt EXCEPT !.num = r.num, !.delta = r.delta]
     IN  inferred(delta_from_arg_vals(dlt.llhs, dlt.lhs, dlt.rhs, dlt.has_rhs,
                                      dlt.must_be_unity))
  /\ pc' = "inferred"
  /\ UNCHANGED <<args, opt, text, wrt, pst, cnt, slots, rd, sst, cap, address, skp>>

DeltaNext == InferDelta

DeltaSpec == DeltaInit /\ [][DeltaNext]_vars

(***************************************************************************)
(* The printer with a buffer that may be too short: a scalar, an array, a  *)
(* range, a blob and a string that is broken at a narrow line, printed     *)
(* into every capacity from 1 to MaxCapacity.                              *)
(***************************************************************************)
MaxCapacity == 24
ShortArgs ==
  {<<IntArg("i", 23)>>,
   <<ArrayArg("i", 2), IntArg("i", 1), IntArg("i", 2)>>,
   DeltaRange(3, IntArg("i", 1), IntArg("i", 15)),
   <<BlobArg(<<1, 255>>)>>,
   <<StrArg("s", <<"a", "b", "c", " ", "d", "e", "f">>)>>}

ShortInit ==
  /\ pc = "args"
  /\ args \in ShortArgs
  /\ opt \in Options
  /\ cap \in 1..MaxCapacity
  /\ text = <<>>
  /\ wrt = 0
  /\ pst = [fail |-> FALSE, oob |-> FALSE, cols |-> 0]
  /\ cnt = NoCount
  /\ slots = <<>>
  /\ rd = 0
  /\ sst = NoStatus
  /\ dlt = NoDelta
  /\ address = <<>>
  /\ skp = NoSkip

ShortNext == PrintValues \/ PrintValue

ShortSpec == ShortInit /\ [][ShortNext]_vars

(***************************************************************************)
(* The message writer with a buffer of every capacity from 1 to            *)
(* MaxMessageCapacity, and the length detector on what it wrote: the two   *)
(* messages of the test, and messages with no argument and one argument.   *)
(***************************************************************************)
MaxMessageCapacity == 36
PagePoge == [address |-> <<"/", "p", "a", "g", "e", "/", "p", "o", "g", "e">>,
             args |-> <<Plain("T"), Plain("I"), Plain("F")>>]
Testing == [address |-> <<"/", "t", "e", "s", "t", "i", "n", "g">>,
            args |-> <<IntArg("i", 23),
                       StrArg("s", <<"t", "h", "i", "s", " ", "s", "t", "r", "i", "n", "g">>)>>]
Messages ==
  {PagePoge, Testing,
   [address |-> <<"/", "a">>, args |-> <<>>],
   [address |-> <<"/", "a">>, args |-> <<IntArg("i", 1)>>],
   [address |-> <<"/", "a", "b", "c">>, args |-> <<StrArg("s", <<"x", "y">>), Plain("N")>>]}

MessageInit ==
  /\ pc = "message"
  /\ \E m \in Messages : address = m.address /\ args = m.args
  /\ cap \in 1..MaxMessageCapacity
  /\ text = [k \in 1..MaxMessageCapacity |-> "?"]
  /\ opt = default_print_options
  /\ wrt = 0
  /\ pst = [fail |-> FALSE, oob |-> FALSE, cols |-> 0]
  /\ cnt = NoCount
  /\ slots = <<>>
  /\ rd = 0
  /\ sst = NoStatus
  /\ dlt = NoDelta
  /\ skp = NoSkip

\* sosc(buffer, cap, address, types, ...)
WriteMessage ==
  /\ pc = "message"
  /\ LET written(r) == text' = r.mem /\ wrt' = r.size
     IN  written(sosc(text, cap, address, args))
  /\ pc' = "written"
  /\ UNCHANGED <<args, opt, pst, cnt, slots, rd, sst, dlt, cap, address, skp>>

\* msg_len(buffer) on a buffer that sosc has written
DetectLength ==
  /\ pc = "written"
  /\ wrt > 0
  /\ cnt' = [cnt EXCEPT !.num = msg_len(text)]
  /\ pc' = "detected"
  /\ UNCHANGED <<args, opt, text, wrt, pst, slots, rd, sst, dlt, cap, address, skp>>

MessageNext == WriteMessage \/ DetectLength

MessageSpec == MessageInit /\ [][MessageNext]_vars

(***************************************************************************)
(* Properties.                                                             *)
(***************************************************************************)
Succeeded == ~pst.fail /\ ~pst.oob /\ ~sst.fail /\ ~sst.ub

\* Has the value list been printed / printed and scanned back?
ListPrinted == pc \in {"text", "counted", "scanned"} /\ args # <<>>
ValuePrinted == pc \in {"valtext", "valscanned"}

C1Text == <<"t", "r", "u", "e", " ", "2", "3", " ",
            "\"", "t", "h", "i", "s", " ", "s", "t", "r", "i", "n", "g", "\"">>

\* C1: printing [true, int 23, string "this string"] with the default options
\* yields the text true 23 "this string"; scanning that text with three slots
\* yields the three values again and consumes the whole text.
C1_PrintThenScan ==
  (args = C1Args /\ opt = default_print_options) =>
    /\ ListPrinted => text = C1Text /\ wrt = Len(C1Text) /\ ~pst.fail /\ ~pst.oob
    /\ pc \in {"counted", "scanned"} => cnt = [num |-> 3, ub |-> FALSE, fail |-> FALSE]
    /\ pc = "scanned" =>
         /\ Len(slots) = 3
         /\ slots[1].type = "T"
         /\ slots[2].type = "i" /\ slots[2].i = 23
         /\ slots[3].type = "s"
         /\ slots[3].s = <<"t", "h", "i", "s", " ", "s", "t", "r", "i", "n", "g">>
         /\ rd = Len(text)
         /\ Succeeded

C1_Scanned == pc = "scanned" /\ args = C1Args /\ opt = default_print_options

\* C2: a single value of tag T, F, N, I, i, h, r, m, c, b or the timestamp
\* "immediately", printed by rtosc_print_arg_val and scanned back by
\* rtosc_scan_arg_val, comes back with the same tag and payload, and the scanner
\* consumes exactly the bytes the printer wrote.
C2_ScalarRoundTrip ==
  (pc = "valscanned" /\ Len(args) = 1 /\ args[1] \in Scalars) =>
    slots = args /\ rd = wrt /\ wrt = Len(text) /\ Succeeded

\* Every tag of C2, and a character of the escape table, has been through it.
C2_Scanned ==
  /\ pc = "valscanned" /\ Len(args) = 1 /\ args[1] \in Scalars
  /\ args[1] \in {IntArg("c", Ord("\n")), IntArg("c", Ord("'")), BlobArg(<<1, 255>>),
                  BytesArg("m", <<144, 60, 127, 0>>), IntArg("h", -3)}

QuotedSymbol(sym) == <<"\"">> \o sym \o <<"\"", "S">>

\* C3: a symbol is printed unquoted when it is an identifier and as a quoted
\* string with the marker S otherwise, and scanning the printed text yields
\* the symbol again, whatever its text.
C3_SymbolRoundTrip ==
  (Len(args) = 1 /\ args[1].type = "S" /\ opt.linelength = 80) =>
    /\ ValuePrinted =>
         text = IF SymbolIsPlain(args[1].s) THEN args[1].s ELSE QuotedSymbol(args[1].s)
    /\ pc = "valscanned" => slots = args

\* The text without the continuation sequences of a broken string literal.
Continuation == <<"\"", "\\", "\n", " ", " ", " ", " ", "\"">>

Unbroken(tt) ==
  LET starts == {k \in 1..(Len(tt) - Len(Continuation) + 1) :
                   SubSeq(tt, k, k + Len(Continuation) - 1) = Continuation}
      kept == {k \in 1..Len(tt) : \A b \in starts : k < b \/ k >= b + Len(Continuation)}
      nth(n) == CHOOSE k \in kept : Cardinality({j \in kept : j < k}) = n - 1
  IN  [n \in 1..Cardinality(kept) |-> tt[nth(n)]]

\* The characters of a string literal: each character, or its escape sequence.
RECURSIVE Escaped(_)
Escaped(ss) ==
  IF ss = <<>> THEN <<>>
  ELSE (IF as_escaped_char(Head(ss), FALSE) = NoEsc THEN <<Head(ss)>>
        ELSE <<"\\", as_escaped_char(Head(ss), FALSE)>>) \o Escaped(Tail(ss))

\* C4: a string, at every line length, is printed as its quoted literal with
\* nothing added but continuation sequences (quote, backslash, newline, four
\* spaces, quote); scanning the printed text yields one string slot with the
\* same text and consumes exactly the printed length.
C4_StringRoundTrip ==
  (Len(args) = 1 /\ args[1].type = "s") =>
    /\ ValuePrinted =>
         /\ Unbroken(text) = <<"\"">> \o Escaped(args[1].s) \o <<"\"">>
         /\ wrt = Len(text) /\ ~pst.fail /\ ~pst.oob
    /\ pc = "valscanned" => slots = args /\ rd = wrt /\ Succeeded

\* A string longer than the line, broken at least twice, has been scanned.
C4_BrokenScanned ==
  /\ pc = "valscanned" /\ Len(args) = 1 /\ args[1].type = "s"
  /\ opt.linelength = NarrowLine
  /\ Len(text) >= Len(args[1].s) + 2 + 2 * Len(Continuation)

\* The text rtosc_print_arg_vals writes for the values aa under the options oo.
PrintedValues(aa, oo) ==
  CStr(rtosc_print_arg_vals(aa, Len(aa), NewPrintState(BufferSize, "?"), 1, BufferSize,
                            oo, 0).st.mem, 1)

\* The text rtosc_print_arg_val writes for the single value aa under the options oo.
PrintedValue(aa, oo) ==
  CStr(rtosc_print_arg_val(aa, 1, NewPrintState(BufferSize, "?"), 1, BufferSize,
                           oo, 0).st.mem, 1)

\* The explicit terms of the range aa: s, s+d, ..., or copies of the start.
Expanded(aa) ==
  [k \in 1..aa[1].i |-> IF aa[1].x # 0 THEN rtosc_arg_val_range_arg(aa, 1, k - 1)
                          ELSE aa[2]]

IsRange(aa) == Len(aa) >= 2 /\ aa[1].type = "-"
IsDeltaRange(aa) == IsRange(aa) /\ aa[1].x # 0
IsCopyRange(aa) == IsRange(aa) /\ aa[1].x = 0

\* C5: with range compression disabled, a finite range of k >= 1 terms is
\* printed as the k explicit values (or k copies of the start) are printed by
\* rtosc_print_arg_vals under the same options.
C5_ExpandedRange ==
  (IsRange(args) /\ args[1].i >= 1 /\ ~opt.compress_ranges
   /\ (ListPrinted \/ ValuePrinted) /\ ~pst.fail) =>
    text = PrintedValues(Expanded(args), opt)

\* The slots ss from the kth on with every range replaced by its terms.
RECURSIVE FlattenFrom(_, _)
FlattenFrom(ss, k) ==
  IF k > Len(ss) THEN <<>>
  ELSE IF ss[k].type # "-" THEN <<ss[k]>> \o FlattenFrom(ss, k + 1)
  ELSE IF ss[k].x # 0
  THEN [n \in 1..ss[k].i |-> rtosc_arg_val_range_arg(ss, k, n - 1)] \o FlattenFrom(ss, k + 3)
  ELSE [n \in 1..ss[k].i |-> ss[k + 1]] \o FlattenFrom(ss, k + 2)

\* The slots the scanner writes for the text tt, with as many slots as counted.
ScannedSlots(tt) ==
  rtosc_scan_arg_vals(tt, 1, rtosc_count_printed_arg_vals(tt, 1).num,
                      StringBufferSize).sc.args

\* C6: a finite integer progression of k >= 2 terms with delta d # 0, printed as
\* a compressed range and scanned, gives the flattened slots that printing and
\* scanning its k explicit values gives.
C6_RangeAsExplicit ==
  (pc = "scanned" /\ IsDeltaRange(args) /\ args[1].i >= 2 /\ args[2].i # 0
   /\ args[2].type = "i" /\ opt.compress_ranges /\ opt.linelength = 80) =>
    FlattenFrom(slots, 1) = FlattenFrom(ScannedSlots(PrintedValues(Expanded(args), opt)), 1)

\* C7: with compression, a finite delta-less range of N >= 1 copies of v is
\* printed as N, the letter x and the text of v, and scanning that text gives
\* the range slot and v back.
C7_TimesForm ==
  (IsCopyRange(args) /\ args[1].i >= 1 /\ opt.compress_ranges /\ opt.linelength = 80) =>
    /\ ValuePrinted =>
         text = DecStr(args[1].i) \o <<"x">> \o PrintedValue(<<args[2]>>, opt)
    /\ pc = "valscanned" => slots = args

\* The last term of the range aa.
LastTerm(aa) == <<rtosc_arg_val_range_arg(aa, 1, aa[1].i - 1)>>
\* The start value of the range aa.
StartTerm(aa) == <<aa[Len(aa)]>>

\* C8 as stated: with compression, a finite range with a delta is printed as
\* its start, " ... " and its last term and nothing else; an unbounded range
\* as its start and " ..." whatever the compression setting.
C8_Original ==
  (IsRange(args) /\ (ListPrinted \/ ValuePrinted) /\ ~pst.fail) =>
    /\ (IsDeltaRange(args) /\ args[1].i >= 1 /\ opt.compress_ranges) =>
         text = PrintedValue(StartTerm(args), opt) \o Dots \o <<" ">>
                \o PrintedValue(LastTerm(args), opt)
    /\ args[1].i = 0 => text = PrintedValue(StartTerm(args), opt) \o Dots

\* C8: with compression, a finite range with a delta is printed as its start,
\* " ...", then a space and its last term when the whole fits the line length,
\* and a newline, four spaces and its last term when it does not; an unbounded
\* range is printed as its start and " ..." whatever the compression setting.
C8_CompressedRange ==
  (IsRange(args) /\ (ListPrinted \/ ValuePrinted) /\ ~pst.fail) =>
    /\ (IsDeltaRange(args) /\ args[1].i >= 1 /\ opt.compress_ranges) =>
         text = PrintedValue(StartTerm(args), opt) \o Dots
                \o (IF Len(PrintedValue(StartTerm(args), opt)) + 5
                       + Len(PrintedValue(LastTerm(args), opt)) > opt.linelength
                    THEN <<"\n", " ", " ", " ", " ">> ELSE <<" ">>)
                \o PrintedValue(LastTerm(args), opt)
    /\ args[1].i = 0 => text = PrintedValue(StartTerm(args), opt) \o Dots

\* A compressed range too long for its line, and an unbounded one, were printed.
C8_Printed ==
  /\ ValuePrinted /\ IsDeltaRange(args) /\ args[1].i >= 2 /\ opt.compress_ranges
  /\ opt.linelength = NarrowLine
  /\ Len(text) > NarrowLine

\* C9: when rtosc_count_printed_arg_vals returns n for a text, scanning the
\* text with n slots writes exactly n slots.
C9_CountIsSlots == pc = "scanned" => Len(slots) = cnt.num

OneThreeNine == <<"1", " ", "3", " ", ".", ".", ".", " ", "9">>

\* C10 as stated: scanning 1 3 ... 9 gives a single range with delta 2, term
\* count 5 and start 1.
C10_Original ==
  (pc = "scanned" /\ text = OneThreeNine) =>
    slots = <<RangeArg(5, 1), IntArg("i", 2), IntArg("i", 1)>>

\* C10: scanning 1 3 ... 9 leaves the value 1 in its own slot and follows it
\* with a range with delta 2, term count 4 and start 3; the whole text is
\* consumed.
C10_OneThenRange ==
  (pc = "scanned" /\ text = OneThreeNine) =>
    /\ slots = <<IntArg("i", 1), RangeArg(4, 1), IntArg("i", 2), IntArg("i", 3)>>
    /\ cnt.num = 4 /\ rd = Len(text) /\ Succeeded

C10_Scanned == pc = "scanned" /\ text = OneThreeNine /\ args = <<>>

Inferred == pc = "inferred"
DerivedWithRhs == Inferred /\ ~dlt.must_be_unity /\ dlt.has_rhs
DerivedNoRhs == Inferred /\ ~dlt.must_be_unity /\ ~dlt.has_rhs
Unity == Inferred /\ dlt.must_be_unity
IntOperand(n) == IntArg("i", n)
\* The difference of two operands of one type, in units of their denominator.
Diff(aa, bb) == aa.i - bb.i
\* Is the operand of a float type and not a whole number?
Fractional(aa) == aa.type \in FloatLike /\ aa.i % aa.x # 0

\* C11 as stated: in derived mode, LL = 2, L = 5, R = 11 give step 3 and the
\* term count 4.
C11_Original ==
  (DerivedWithRhs /\ dlt.llhs = IntOperand(2) /\ dlt.lhs = IntOperand(5)
   /\ dlt.rhs = IntOperand(11)) =>
    dlt.delta = IntOperand(3) /\ dlt.num = 4

\* C11: in derived mode, LL = 2, L = 5, R = 11 give step 3 and the term count
\* 3, the number of the terms 5, 8, 11 from L to R.
C11_StepThreeCountThree ==
  (DerivedWithRhs /\ dlt.llhs = IntOperand(2) /\ dlt.lhs = IntOperand(5)
   /\ dlt.rhs = IntOperand(11)) =>
    dlt.delta = IntOperand(3) /\ dlt.num = 3

C11_Inferred ==
  /\ DerivedWithRhs /\ dlt.llhs = IntOperand(2) /\ dlt.lhs = IntOperand(5)
  /\ dlt.rhs = IntOperand(11) /\ dlt.num # -1

\* C12: in derived mode with R given and integer operands, a successful
\* inference sets delta d = L - LL and returns (R - L)/d + 1, the number of
\* terms of the progression L, L + d, ..., R.
C12_TermCount ==
  (DerivedWithRhs /\ dlt.lhs.type = "i" /\ dlt.num # -1) =>
    /\ dlt.delta = IntOperand(Diff(dlt.lhs, dlt.llhs))
    /\ dlt.num = TruncDiv(Diff(dlt.rhs, dlt.lhs), dlt.delta.i) + 1
    /\ dlt.num >= 1
    /\ dlt.lhs.i + (dlt.num - 1) * dlt.delta.i = dlt.rhs.i

C14_Infinite ==
  DerivedNoRhs =>
    /\ dlt.num = 0 <=> Diff(dlt.lhs, dlt.llhs) # 0
    /\ Diff(dlt.lhs, dlt.llhs) = 0 => dlt.num = -1

C14_Inferred == DerivedNoRhs /\ dlt.num = 0 /\ dlt.delta.i < 0

TokenTag(tt) == IF tt[1] = "n" THEN "N" ELSE IF tt[1] = "'" THEN "c" ELSE "i"
\* The scanner has written a range slot.
RangeFormed == pc = "scanned" /\ ~sst.fail /\ \E k \in DOMAIN slots : slots[k].type = "-"

InferenceFails ==
  \/ \E l \in Tokens : text = l \o Dots
  \/ \E l \in Tokens, r \in Tokens :
       /\ text = l \o Dots \o <<" ">> \o r
       /\ (TokenTag(l) # TokenTag(r) \/ TokenTag(l) \notin allowed_range_types \/ l = r)
  \/ \E ll \in Tokens, l \in Tokens, r \in Tokens :
       /\ text = EllipsisText(ll, l, r)
       /\ \/ TokenTag(l) # TokenTag(r)
          \/ TokenTag(l) \notin allowed_range_types
          \/ ll = l
          \/ TokenTag(ll) # TokenTag(l) /\ l = r

C18_NoWriteOutside ==
  (ListPrinted \/ ValuePrinted) =>
    /\ ~pst.oob
    /\ cap < Len(PrintedValues(args, opt)) + 1 => pst.fail

\* rtosc_print_arg_vals has returned from printing no value at all.
EmptyListPrinted == pc = "text" /\ args = <<>> /\ text \notin Texts \cup EllipsisTexts

\* C19: on return from rtosc_print_arg_vals and rtosc_print_arg_val the
\* buffer holds a NUL-terminated text as long as the returned count.
C19_TerminatedText ==
  ((ListPrinted \/ ValuePrinted \/ EmptyListPrinted) /\ ~pst.fail) => Len(text) = wrt

\* The values of the list aa from the kth on as they are laid out on lines:
\* [text, close], an array's bracket written with its first and last element;
\* close is 1 for the element that carries the closing bracket.
RECURSIVE ItemsFrom(_, _, _)
ItemsFrom(aa, k, left) ==
  IF k > Len(aa) THEN <<>>
  ELSE IF aa[k].type = "a" THEN ItemsFrom(aa, k + 1, aa[k].i)
  ELSE <<[text |-> (IF left > 0 /\ aa[k - 1].type = "a" THEN <<"[">> ELSE <<>>)
                   \o DecStr(aa[k].i)
                   \o (IF left = 1 THEN <<"]">> ELSE <<>>),
          close |-> IF left = 1 THEN 1 ELSE 0]>>
       \o ItemsFrom(aa, k + 1, IF left > 0 THEN left - 1 ELSE 0)

\* The lines the items from the kth on take: a newline and four spaces stand
\* before an item exactly when it is not the first item and writing it after
\* a separator would pass the line length.
RECURSIVE Layout(_, _, _, _)
Layout(items, k, cols, linelength) ==
  IF k > Len(items) THEN <<>>
  ELSE IF k = 1
  THEN items[k].text \o Layout(items, k + 1, Len(items[k].text), linelength)
  ELSE IF cols + 1 + Len(items[k].text) - items[k].close > linelength
  THEN <<"\n", " ", " ", " ", " ">> \o items[k].text
       \o Layout(items, k + 1, 4 + Len(items[k].text), linelength)
  ELSE <<" ">> \o items[k].text
       \o Layout(items, k + 1, cols + 1 + Len(items[k].text), linelength)

\* A list of integers and non-empty arrays of integers.
IntegerList(aa) ==
  /\ aa # <<>>
  /\ \A k \in DOMAIN aa : aa[k].type \in {"i", "a"} /\ (aa[k].type = "a" => aa[k].i > 0)

\* C20: a newline and the indentation stand before a value exactly when
\* writing the value passed the line length and the value was not the first
\* on its line; the first value on a line is never moved.
C20_LineBreaks ==
  (ListPrinted /\ ~pst.fail /\ IntegerList(args) /\ opt.sep = <<" ">>) =>
    text = Layout(ItemsFrom(args, 1, 0), 1, 0, opt.linelength)

\* The message texts by what they hold.
Address == <<"/", "a">>
Comment == <<"%", " ", "c", "\n">>
NoTextAtAll == {<<>>, <<" ">>, Comment}
AddressAlone == {Address, Address \o <<" ">>}

\* C21 as stated: the message count is the sentinel INT_MIN when an address
\* is present but no value text follows it.
C21_Original ==
  (pc = "msgcounted" /\ text \in AddressAlone) => cnt.num = IntMin

\* C21: the message count is the slot count when every value after the
\* address parses (0 when no value follows the address), minus the number of
\* slots up to and including the failing value when a value fails to parse,
\* -1 when the text does not begin with an address, and the sentinel INT_MIN
\* when the text holds neither an address nor a value.
C21_CountOfMessage ==
  pc = "msgcounted" =>
    /\ ~cnt.ub /\ ~cnt.fail
    /\ text \in NoTextAtAll <=> cnt.num = IntMin
    /\ text \in AddressAlone => cnt.num = 0
    /\ text = <<"1", " ", "3">> => cnt.num = 0 - 1
    /\ text = Address \o <<" ", "1", " ", "3">> => cnt.num = 2
    /\ text = Comment \o Address \o <<" ", "1">> => cnt.num = 1
    /\ text = Address \o <<" ", "[", "1", " ", "2", "]", " ", "'", "a", "'">> => cnt.num = 4
    /\ text = Address \o <<" ", "1", " ", "3">> \o Dots \o <<" ", "9">> => cnt.num = 4
    /\ text = Address \o <<" ", "1">> \o Dots => cnt.num = 0 - 1
    /\ text = Address \o <<" ", "1", " ", "1">> \o Dots \o <<" ", "3">> => cnt.num = 0 - 2
    /\ text = Address \o <<" ", "1", " ", "\"", "b">> => cnt.num = 0 - 2

C21_SentinelReturned ==
  pc = "msgcounted" /\ text = Comment /\ cnt.num = IntMin

\* Array texts whose scalar elements and range start values all carry the
\* tag 'i', and array texts that mix the tags 'i' and 'c'.
OneTagArrays ==
  {<<"[", "1", " ", "2", " ", "3", "]">>,
   <<"[", "1", " ", "3", " ", ".", ".", ".", " ", "7", " ", "0", "]">>,
   <<"[", "1", " ", ".", ".", ".", " ", "3", " ", "4", "]">>}
MixedTagArrays ==
  {<<"[", "1", " ", "'", "a", "'", "]">>,
   <<"[", "1", " ", "'", "a", "'", " ", ".", ".", ".", " ", "'", "c", "'", "]">>}

\* C22: the recognizer rejects an array text exactly when two of its
\* elements carry different tags, a range counting with the tag of its start
\* value: an array of ranges and scalars of one tag is accepted, an array
\* whose scalars and range start values differ in tag is rejected.
C22_ArrayTags ==
  pc = "counted" =>
    /\ text \in OneTagArrays => cnt.num > 0
    /\ text \in MixedTagArrays => cnt.num < 0

\* C23: a text that starts with B or M and is no BLOB or MIDI literal is an
\* identifier to the recognizer and to the scanner: it is counted as one
\* value and scanned as a symbol, without undefined behaviour.
C23_IdentifierFallback ==
  /\ (pc = "counted" /\ text \in {<<"B", "a", "r">>, <<"M", "o", "d", "e">>}) =>
       ~cnt.ub /\ ~cnt.fail /\ cnt.num = 1
  /\ (pc = "scanned" /\ text = <<"M", "o", "d", "e">>) =>
       ~sst.ub /\ ~sst.fail /\ slots = <<StrArg("S", text)>>
  /\ (pc = "valscanned" /\ args \in {<<StrArg("S", <<"B", "x">>)>>,
                                      <<StrArg("S", <<"M", "1">>)>>}) =>
       ~sst.ub /\ ~sst.fail /\ slots = args

\* The size of the message held: 20 and 32 bytes for the messages of the
\* test, counted from the layout of an OSC message for the others.
MessageSize ==
  IF address = PagePoge.address THEN 20
  ELSE IF address = Testing.address THEN 32
  ELSE IF args = <<>> THEN 8
  ELSE IF Len(args) = 1 THEN 12
  ELSE 16
Written == pc \in {"written", "detected"}

\* C24 as stated: the writer returns the message size when the capacity is
\* the size or more, returns 0 and clears the buffer when it is less, and
\* the length detected from a written buffer is the size the writer returned.
C24_Original ==
  /\ Written => /\ cap >= MessageSize => wrt = MessageSize
                /\ cap < MessageSize => wrt = 0 /\ text[1] = NUL
  /\ pc = "detected" => cnt.num = wrt

\* C24: the writer returns the message size when the capacity is the size or
\* more, and returns 0 and clears the buffer when it is one byte or more
\* less; the length detected from the written message /testing "is" equals
\* the size returned (32), while for /page/poge "TIF" the writer returns 20
\* and the detected length is 16.
C24_WriterAndDetector ==
  /\ Written => /\ cap >= MessageSize => wrt = MessageSize
                /\ cap < MessageSize => wrt = 0 /\ text[1] = NUL
  /\ (pc = "detected" /\ address = Testing.address) => cnt.num = wrt
  /\ (pc = "detected" /\ address = PagePoge.address) => cnt.num = 16 /\ wrt = 20

C24_ExactFit ==
  pc = "detected" /\ address = Testing.address /\ cap = 32 /\ wrt = 32 /\ cnt.num = 32

\* Does stepping by next_arg_offset from slot k on end exactly after slot l?
RECURSIVE StepsEndAfter(_, _, _)
StepsEndAfter(ss, k, l) ==
  IF k = l + 1 THEN TRUE
  ELSE IF k > l THEN FALSE
  ELSE StepsEndAfter(ss, k + next_arg_offset(ss, k), l)

\* The width of the value at slot k is the number of slots it occupies: the
\* elements of an array fill its len slots exactly, and a range is followed
\* by its delta, if it has one, and its start value.
WidthIsExtent(ss, k) ==
  CASE ss[k].type = "a" -> /\ next_arg_offset(ss, k) = 1 + ss[k].i
                           /\ StepsEndAfter(ss, k + 1, k + ss[k].i)
    [] ss[k].type = "-" ->
         /\ k + ss[k].x + 1 <= Len(ss)
         /\ next_arg_offset(ss, k) = 1 + ss[k].x + next_arg_offset(ss, k + ss[k].x + 1)
    [] OTHER -> next_arg_offset(ss, k) = 1

\* C25: in the slots the scanner produces, the width of every value is the
\* number of slots the value occupies, so that stepping by width from the
\* first slot visits the top-level values and ends at the slot count.
C25_WidthOfScanned ==
  (pc \in {"scanned", "valscanned"} /\ ~sst.fail /\ ~sst.ub) =>
    /\ StepsEndAfter(slots, 1, Len(slots))
    /\ \A k \in DOMAIN slots : WidthIsExtent(slots, k)

C25_NestedScanned ==
  /\ pc = "scanned" /\ ~sst.fail /\ ~sst.ub
  /\ text = <<"[", "1", " ", "3", " ", ".", ".", ".", " ", "7", " ", "0", "]">>
  /\ slots[1].type = "a" /\ slots[1].i = 5 /\ slots[3].type = "-"

\* C26: on a text that the count pass accepts, no assertion of the scanner
\* fails: the term count inferred for a range with a terminator is positive.
C26_AssertionHolds ==
  (pc = "scanned" /\ text \in Texts \cup EllipsisTexts) => ~sst.fail

\* C27: on a text of one value that the recognizer accepts, the scanner
\* consumes the bytes the recognizer skipped and writes the tag the
\* recognizer reported.
C27_ScannerFollowsRecognizer ==
  (pc = "valrecognized" /\ skp.src # 0 /\ ~skp.ub /\ ~skp.fail) =>
    /\ ~sst.fail /\ ~sst.ub
    /\ rd = skp.src - 1
    /\ slots[1].type = skp.type

\* The slots of the ranges 1 ... 3 (no LL: step 1) and 5 ... 9 with LL = 3,
\* the last term of the range before it: step 2 and 3 terms.
OneToThreeFiveToNine ==
  DeltaRange(3, IntArg("i", 1), IntArg("i", 1)) \o DeltaRange(3, IntArg("i", 2), IntArg("i", 5))

\* C28: the value before the start of a range is its LL, and a range with
\* delta before it counts with its last term: scanning 1 ... 3 5 ... 9 gives
\* the second range the step 2, at top level and inside an array alike, and
\* scanning [1 3 ... 7 0] gives the range the step 2 from LL = 1.
C28_LastTermIsLL ==
  pc = "scanned" =>
    /\ text = <<"1", " ", ".", ".", ".", " ", "3", " ", "5", " ", ".", ".", ".", " ", "9">>
         => slots = OneToThreeFiveToNine
    /\ text = <<"[", "1", " ", ".", ".", ".", " ", "3", " ", "5", " ", ".", ".", ".", " ", "9", "]">>
         => SubSeq(slots, 2, Len(slots)) = OneToThreeFiveToNine
    /\ text = <<"[", "1", " ", "3", " ", ".", ".", ".", " ", "7", " ", "0", "]">>
         => SubSeq(slots, 3, 5) = DeltaRange(3, IntArg("i", 2), IntArg("i", 3))

\* The characters of a text that belong to values: neither white space nor
\* the comma of a separator.
IsInk(c) == c \notin {" ", "\n", ","}
Ink(tt) == SelectSeq(tt, IsInk)

\* The text with every newline and indentation replaced by one space.
RECURSIVE Unwrapped(_, _)
Unwrapped(tt, k) ==
  IF k > Len(tt) THEN <<>>
  ELSE IF StartsWith(tt, k, <<"\n", " ", " ", " ", " ">>) THEN <<" ">> \o Unwrapped(tt, k + 5)
  ELSE <<tt[k]>> \o Unwrapped(tt, k + 1)

\* Values without strings, symbols and blobs.
NoStrings(aa) == \A k \in DOMAIN aa : aa[k].type \notin {"s", "S", "b"}

\* The text the same call writes when the line is longer than any text.
Unbounded ==
  IF pc \in {"valtext", "valscanned", "valrecognized"}
  THEN PrintedValue(args, [opt EXCEPT !.linelength = BufferSize])
  ELSE PrintedValues(args, [opt EXCEPT !.linelength = BufferSize])

\* C29: line wrapping changes white space only: the characters of the
\* values are those of the text printed on an unbounded line, in the same
\* order, a newline and four spaces stand where a one-space separator stood,
\* and nothing is written outside the buffer.
C29_WrapKeepsValues ==
  ((ListPrinted \/ ValuePrinted \/ pc = "valrecognized") /\ ~pst.fail /\ NoStrings(args)) =>
    /\ ~pst.oob
    /\ Ink(text) = Ink(Unbounded)
    /\ opt.sep = <<" ">> => Unwrapped(text, 1) = Unbounded

\* The number of characters of the text after its last newline.
LastLine(tt) ==
  LET Newlines == {k \in DOMAIN tt : tt[k] = "\n"}
  IN  IF Newlines = {} THEN Len(tt)
      ELSE Len(tt) - (CHOOSE k \in Newlines : \A j \in Newlines : j <= k)

\* C30: after a value has been printed from column 0, the column counter is
\* the number of characters on the last line of the text.
C30_ColumnCount ==
  ((ListPrinted \/ ValuePrinted) /\ ~pst.fail) => pst.cols = LastLine(text)

====
